---- MODULE Spec2Model ----
(***************************************************************************)
(* Model of the sod composition core: the stock idle strategies and the    *)
(* KEEP_RUNNING flag (src/src/idle.rs), RetryService and PollService       *)
(* (src/sod/src/lib.rs, src/src/lib.rs) and ServiceChain.                  *)
(*                                                                         *)
(* One caller thread invokes one operation at a time (a direct call of an  *)
(* idle strategy, RetryService.process, PollService.process or             *)
(* ServiceChain.process) and runs it to completion; concurrently external  *)
(* code may store to KEEP_RUNNING.  The wrapped units are test doubles     *)
(* whose results are chosen nondeterministically.                          *)
(***************************************************************************)
EXTENDS Integers, Sequences, FiniteSets, TLC

\* ---------------------------------------------------------------- bounds
\* largest input value handed to a unit
MaxInput == 1
\* largest output value produced by a test double
MaxOutput == 1
\* number of retryable failures / empty polls a test double produces in one call
MaxAttempts == 3
\* largest attempt number passed to an idle strategy called directly
MaxIdleAttempt == 32
\* largest number of links appended to a chain
MaxLinks == 3
\* largest number of values waiting in an mpsc channel
MaxChan == 2
\* largest number of process calls followed in one spawned loop
MaxLoopCalls == 3
\* largest number of steps followed of another task on the executor worker
MaxOtherSteps == 2
\* push_with_retry scaled down: items pushed (1024 in the test) and capacity
\* of the queue (128 in the test)
NumItems == 3
QueueCap == 2
\* largest number of process calls one thread makes on its MutexService clone
MaxMutexCalls == 2
\* largest number of connections the WsServer of ping_pong accepts
MaxAccepts == 1
\* how long a unit call that never returns is followed
MaxStuckTicks == 1
\* largest number of process calls made on one MutService chain
MaxChainCalls == 3
\* broadcasts followed on one bus (3 in the tests) and the length of the bus
\* (1024 in the tests)
MaxBroadcasts == 3
BusLen == 2

Inputs == 0..MaxInput
\* inputs handed to a chain: the small ones and the 100 of tests::service_chain
ChainInputs == Inputs \cup {100}
Outputs == 0..MaxOutput
\* durations (microseconds) handed to park(_, timeout) and sleep(_, duration)
Timeouts == {7, 2000}

\* -------------------------------------------------------- values and results
Variants == {"Service", "MutService", "AsyncService"}

NoErr == [kind |-> "None", payload |-> 0]
\* errors of the wrapped test double: a retryable error that hands back an
\* input (as TrySendError::Full(input) does), a terminal error (as
\* TrySendError::Disconnected(input)), and one its classifier reports as
\* RetryError::Interrupted
UnitErrors == [kind : {"Retry", "Terminal"}, payload : Inputs] \cup {[kind |-> "Intr", payload |-> 0]}
\* errors of a polled test double (PollService has no classifier)
PollErrors == [kind : {"Terminal"}, payload : Inputs]
\* the error of link k of a chain
LinkError(k) == [kind |-> "Link", payload |-> k]

\* RetryError<E>
NoRetryError == [re |-> "None", e |-> NoErr]
Interrupted == [re |-> "Interrupted", e |-> NoErr]
ServiceError(e) == [re |-> "ServiceError", e |-> e]
\* ServiceChainError wrapping the error of a link (the number of layers is kept in chainLayers)
ServiceChainError(e) == [re |-> "ServiceChainError", e |-> e]

\* Result<O, RetryError<E>>; NoResult while the call has not returned
NoResult == [tag |-> "None", val |-> 0, err |-> NoRetryError]
Ok(v) == [tag |-> "Ok", val |-> v, err |-> NoRetryError]
Err(re) == [tag |-> "Err", val |-> 0, err |-> re]

\* Result<Option<O>, RetryError<E>> of RetryToOptionService
OkSome(v) == [tag |-> "OkSome", val |-> v, err |-> NoRetryError]
OkNone == [tag |-> "OkNone", val |-> 0, err |-> NoRetryError]

\* std::sync::mpsc::TryRecvError
TryRecvEmpty == [kind |-> "Empty", payload |-> 0]
TryRecvDisconnected == [kind |-> "Disconnected", payload |-> 0]

\* Result<O, E> of a wrapped unit; for a polled unit O is Option<T>:
\* "Some" is Ok(Some(val)) and "NoneYet" is Ok(None)
UnitOk(v) == [tag |-> "Ok", val |-> v, e |-> NoErr]
UnitErr(e) == [tag |-> "Err", val |-> 0, e |-> e]
UnitSome(v) == [tag |-> "Some", val |-> v, e |-> NoErr]
UnitNone == [tag |-> "NoneYet", val |-> 0, e |-> NoErr]

\* entries of the call trace of an orchestrator
EvProcess(in, r) == [call |-> "process", arg |-> in, out |-> r.tag, val |-> r.val, e |-> r.e]
EvIdle(a) == [call |-> "idle", arg |-> a, out |-> "", val |-> 0, e |-> NoErr]
EvParse(e) == [call |-> "parse_retry", arg |-> 0, out |-> "", val |-> 0, e |-> e]

\* entry of the call history of a spawned loop: error_handler(e) returned ret
EvHandler(e, ret) == [call |-> "error_handler", arg |-> 0, out |-> ret, val |-> 0, e |-> e]

\* entry of the invocation log of a chain: link k was given `in` and returned r
EvLink(k, in, r) == [link |-> k, in |-> in, out |-> r.tag, val |-> r.val, e |-> r.e]

\* what a wait of an idle strategy does: nothing, thread::yield_now(),
\* thread::park_timeout(micros) or thread::sleep(micros)
NoWait == [kind |-> "none", micros |-> 0]
Yield == [kind |-> "yield", micros |-> 0]
Park(micros) == [kind |-> "park", micros |-> micros]
Sleep(micros) == [kind |-> "sleep", micros |-> micros]

\* the two threads of push_with_retry and the locals of one of them: its
\* place in the for loop and in the process call it is in, the loop's
\* locals, its idle function's position and result, and (history) how many
\* attempts the call has started since the flag was last stored false and
\* whether its latest idle invocation was entered after that store
Threads == {"producer", "consumer"}
ThreadInit ==
    [pc |-> "call", i |-> 0, input |-> 0, attempt |-> 0, err |-> NoErr,
     idlePc |-> "none", idleRet |-> NoResult, result |-> NoResult,
     since |-> 0, idleFalse |-> FALSE, retried |-> FALSE]
\* RetryService::new(ArrayQueuePusher, park_one_micro), PollService::new(ArrayQueuePopper, yielding)
IdleFnOf(t) == IF t = "producer" THEN "park_one_micro" ELSE "yielding"

\* threads holding clones of one MutexService, the inputs they pass, and the
\* locals of one of them: its place in MutexService::process and in the
\* wrapped unit, the call's input, the value the unit loaded, the calls it
\* has finished and what the last one returned
MutexThreads == {"t1", "t2"}
MutexInputs == {1, 2}
MutexThreadInit == [pc |-> "idle", input |-> 0, local |-> 0, calls |-> 0, out |-> NoResult]

\* the receivers a test creates, and one that is not created yet: reg is the
\* number of values broadcast before create_receiver / create_try_receiver
\* (-1 before), got the values its process calls returned, last the result of
\* its latest call and seen the number of values broadcast before that call
BusReaderIds == {1, 2}
NoBusReader == [reg |-> -1, got |-> <<>>, last |-> NoResult, seen |-> 0]

\* `1 << n` on a u64; backoff shifts by 0..9 only, far below the width
Shl1(n) == 2 ^ n

\* ------------------------------------------------------------- idle strategies
StockIdle == {"backoff", "spin", "yielding", "park", "park_one_micro", "park_one_milli",
              "park_one_sec", "sleep", "sleep_one_micro", "sleep_one_milli", "sleep_one_sec"}
\* strategies taking a duration argument
TimedIdle == {"park", "sleep"}
\* strategies that check the flag themselves and then delegate to park(), which checks again
DelegatingIdle == {"park_one_micro", "park_one_milli", "park_one_sec"}
\* an idle function supplied by the caller instead of a stock one
CustomIdle == "custom"
IdleFns == StockIdle \cup {CustomIdle}

VARIABLES
    KEEP_RUNNING,   \* the process-wide AtomicBool
    op,             \* operation the caller thread is in: "none", "idle", "retry", "poll", "chain"
    variant,        \* Service / MutService / AsyncService implementation in use
    pc,             \* position inside the operation
    idleFn,         \* idle function of the current call / orchestrator
    idleTimeout,    \* duration argument of park / sleep (0 for the others)
    idlePc,         \* position inside the idle function: "none", "check", "inner", "wait", "ret"
    idleAttempts,   \* attempt number the idle function was called with
    idleReads,      \* values of KEEP_RUNNING loaded during this idle call, in order
    idleWaits,      \* waits performed during this idle call, in order
    idleRet,        \* Result<(), RetryError<E>> of the idle call
    input,          \* RetryService: working input
    origInput,      \* RetryService: the caller's input
    attempt,        \* RetryService / PollService: the loop's attempt counter
    err,            \* RetryService: error of the failed attempt
    result,         \* result of the operation once it has returned
    trace,          \* calls made by the orchestrator during this process call, in order
    chainLen,       \* ServiceChain: number of links appended (start + next ...)
    chainLink,      \* ServiceChain: link to invoke next / chain level returning
    chainValue,     \* ServiceChain: value flowing from link to link
    chainInvoked,   \* ServiceChain: links invoked in this call, in order (0 is the NoOpService)
    chainFailed,    \* ServiceChain: links that returned Err in this call, in order
    chainLayers,    \* ServiceChain: ServiceChainError layers around the failed link's error
    chainIO,        \* ServiceChain: link, input and result of every invocation of this call, in order
    rtoUnit,        \* RetryToOptionService: the wrapped unit, a test double or an MpscTryReceiver
    chan,           \* MpscTryReceiver: values waiting in the channel
    chanSenders,    \* MpscTryReceiver: whether a Sender of the channel is still alive
    idleResults,    \* RetryService: what the idle function returned, call by call (history)
    worker,         \* executor worker thread of an asynchronous call: who holds it
    otherProgress,  \* steps another task of that worker has made during the call
    q,              \* push_with_retry: the ArrayQueue shared by the two threads
    th,             \* push_with_retry: each thread's position and locals
    received,       \* push_with_retry: the values the consumer's process calls returned
    retryable,      \* Retryable::parse_retry called directly: the adapter it is called on
    mutexHolder,    \* MutexService: the thread holding the MutexGuard, or "none"
    mutexPoisoned,  \* MutexService: whether a holder panicked with the guard alive
    unitN,          \* AppendService::n of the unit inside the mutex
    mt,             \* MutexService: each thread's position and locals
    unitCalls,      \* number of invocations of the wrapped unit's process so far (history)
    unitSum,        \* sum of the inputs the wrapped unit has added so far (history)
    accepted,       \* ping_pong: connections the server has accepted so far
    stuck,              \* whether the caller is inside a unit call that does not return
    stuckTicks,     \* time gone by inside a unit call that does not return
    appendN,        \* mut_service_chain: AppendService::n of the chain's unit
    mcIn,           \* mut_service_chain: inputs of the process calls made on the chain so far
    mcOut,          \* mut_service_chain: what those calls returned
    wrapper,        \* a capability-widening wrapper called directly: which one
    busKind,        \* sod-bus: the broadcaster in use, BusBroadcaster or BusTryBroadcaster
    busLog,         \* sod-bus: the values the bus has accepted, in broadcast order
    busLast,        \* sod-bus: what the latest process call of the broadcaster returned
    busReaders,     \* sod-bus: each receiver's registration point, the values it returned and its latest result
    maybeSome,      \* MaybeProcessService: whether the Option input is Some(input)
    wsEvent,        \* RetryService over a WsSession: the WsSessionEvent the loop works on
    wsOrig          \* RetryService over a WsSession: the WsSessionEvent the caller passed

idleVars == <<idleFn, idleTimeout, idlePc, idleAttempts, idleReads, idleWaits, idleRet>>
loopVars == <<input, origInput, attempt, err, trace>>
chainVars == <<chainLen, chainLink, chainValue, chainInvoked, chainFailed, chainLayers, chainIO>>
rtoVars == <<rtoUnit, chan, chanSenders>>
\* state of the operations other than the idle strategies, the loops and the chain
execVars == <<worker, otherProgress>>
queueVars == <<q, th, received>>
classVars == <<retryable>>
mutexVars == <<mutexHolder, mutexPoisoned, unitN, mt, unitCalls, unitSum>>
serverVars == <<accepted>>
stuckVars == <<stuck, stuckTicks>>
mutChainVars == <<appendN, mcIn, mcOut>>
wrapVars == <<wrapper>>
busVars == <<busKind, busLog, busLast, busReaders>>
maybeVars == <<maybeSome>>
wsVars == <<wsEvent, wsOrig>>
extVars == <<rtoVars, idleResults, execVars, queueVars, classVars, mutexVars, serverVars, stuckVars, mutChainVars, wrapVars, busVars, maybeVars, wsVars>>
vars == <<KEEP_RUNNING, op, variant, pc, idleVars, loopVars, result, chainVars, extVars>>

\* a check that re-arms the flag once it has read it
KeepRunningAfterLoad_Rearms(flag) == TRUE

\* KEEP_RUNNING.load(Ordering::Acquire): the flag after the load
KeepRunningAfterLoad(flag) == flag

\* check_keep_running that never reports the interruption
check_keep_running_NoCheck(flag) == Ok(0)

\* check_keep_running with its condition turned around
check_keep_running_Inverted(flag) == IF flag THEN Err(Interrupted) ELSE Ok(0)

\* idle.rs check_keep_running: Ok(()) when the flag is set, Err(Interrupted) otherwise
check_keep_running(flag) == IF flag THEN Ok(0) ELSE Err(Interrupted)

\* backoff whose first park is 2 microseconds and whose parks reach 1024 one attempt early
backoff_DoubleShift(attempts) ==
    IF attempts < 10 THEN NoWait
    ELSE IF attempts < 20 THEN Yield
    ELSE IF attempts < 30 THEN Park(Shl1(attempts - 19))
    ELSE Park(1024)

\* idle.rs backoff: the wait performed after the flag check
backoff(attempts) ==
    IF attempts < 10 THEN NoWait
    ELSE IF attempts < 20 THEN Yield
    ELSE IF attempts < 30 THEN Park(Shl1(attempts - 20))
    ELSE Park(1024)

spin(attempts) == NoWait
yielding(attempts) == Yield
park(attempts, timeout) == Park(timeout)
park_one_micro(attempts) == park(attempts, 1)
park_one_milli(attempts) == park(attempts, 1000)
park_one_sec(attempts) == park(attempts, 1000000)
sleep(attempts, duration) == Sleep(duration)
sleep_one_micro(attempts) == Sleep(1)
sleep_one_milli(attempts) == Sleep(1000)
sleep_one_sec(attempts) == Sleep(1000000)

\* the wait a stock strategy performs once its flag checks have passed
IdleWaitOf(fn, attempts, timeout) ==
    CASE fn = "backoff" -> backoff(attempts)
      [] fn = "spin" -> spin(attempts)
      [] fn = "yielding" -> yielding(attempts)
      [] fn = "park" -> park(attempts, timeout)
      [] fn = "park_one_micro" -> park_one_micro(attempts)
      [] fn = "park_one_milli" -> park_one_milli(attempts)
      [] fn = "park_one_sec" -> park_one_sec(attempts)
      [] fn = "sleep" -> sleep(attempts, timeout)
      [] fn = "sleep_one_micro" -> sleep_one_micro(attempts)
      [] fn = "sleep_one_milli" -> sleep_one_milli(attempts)
      [] fn = "sleep_one_sec" -> sleep_one_sec(attempts)

\* a strategy that waits first and reports the interruption afterwards
IdleAfterCheck_WaitFirst(fn, at, attempts, timeout, checked) ==
    IF at = "check" /\ fn \in DelegatingIdle /\ checked.tag = "Ok" THEN "inner"
    ELSE IF IdleWaitOf(fn, attempts, timeout).kind = "none" THEN "ret"
    ELSE "wait"

\* position after a flag check that returned `checked`: `?` returns the Err at
\* once; park_one_* then call park(), which checks again; a strategy without
\* a wait returns Ok(()); the others go on to their wait
IdleAfterCheck(fn, at, attempts, timeout, checked) ==
    IF checked.tag = "Err" THEN "ret"
    ELSE IF at = "check" /\ fn \in DelegatingIdle THEN "inner"
    ELSE IF IdleWaitOf(fn, attempts, timeout).kind = "none" THEN "ret"
    ELSE "wait"

\* entering an idle function: (self.idle)(attempt)
IdleEnter(fn, timeout, attempts) ==
    /\ idleFn' = fn
    /\ idleTimeout' = timeout
    /\ idlePc' = "check"
    /\ idleAttempts' = attempts
    /\ idleReads' = <<>>
    /\ idleWaits' = <<>>
    /\ idleRet' = NoResult

IdleReset ==
    /\ idleFn' = "spin"
    /\ idleTimeout' = 0
    /\ idlePc' = "none"
    /\ idleAttempts' = 0
    /\ idleReads' = <<>>
    /\ idleWaits' = <<>>
    /\ idleRet' = NoResult

TimeoutsOf(fn) == IF fn \in TimedIdle THEN Timeouts ELSE {0}

Init ==
    /\ KEEP_RUNNING = TRUE
    /\ op = "none"
    /\ variant = "Service"
    /\ pc = "none"
    /\ idleFn = "spin"
    /\ idleTimeout = 0
    /\ idlePc = "none"
    /\ idleAttempts = 0
    /\ idleReads = <<>>
    /\ idleWaits = <<>>
    /\ idleRet = NoResult
    /\ input = 0
    /\ origInput = 0
    /\ attempt = 0
    /\ err = NoErr
    /\ result = NoResult
    /\ trace = <<>>
    /\ chainLen = 1
    /\ chainLink = 0
    /\ chainValue = 0
    /\ chainInvoked = <<>>
    /\ chainFailed = <<>>
    /\ chainLayers = 0
    /\ chainIO = <<>>
    /\ rtoUnit = "double"
    /\ chan = <<>>
    /\ chanSenders = TRUE
    /\ idleResults = <<>>
    /\ worker = "none"
    /\ otherProgress = 0
    /\ q = <<>>
    /\ th = [t \in Threads |-> ThreadInit]
    /\ received = <<>>
    /\ retryable = "MpscTryReceiver"
    /\ mutexHolder = "none"
    /\ mutexPoisoned = FALSE
    /\ unitN = 0
    /\ mt = [t \in MutexThreads |-> MutexThreadInit]
    /\ unitCalls = 0
    /\ unitSum = 0
    /\ accepted = 0
    /\ stuck = FALSE
    /\ stuckTicks = 0
    /\ appendN = 0
    /\ mcIn = <<>>
    /\ mcOut = <<>>
    /\ wrapper = "ServiceMut"
    /\ busKind = "BusBroadcaster"
    /\ busLog = <<>>
    /\ busLast = NoResult
    /\ busReaders = [r \in BusReaderIds |-> NoBusReader]
    /\ maybeSome = FALSE
    /\ wsEvent = [kind |-> "ReadMessage", msg |-> 0]
    /\ wsOrig = [kind |-> "ReadMessage", msg |-> 0]

\* external code (a signal handler, the application) stores to the flag
StoreKeepRunning ==
    /\ \E b \in BOOLEAN : b # KEEP_RUNNING /\ KEEP_RUNNING' = b
    /\ UNCHANGED <<op, variant, pc, idleVars, loopVars, result, chainVars, extVars>>

\* check_keep_running()? inside a stock strategy: loads the flag
IdleCheckKeepRunning ==
    /\ idlePc \in {"check", "inner"}
    /\ idleFn \in StockIdle
    /\ LET checked == check_keep_running(KEEP_RUNNING)
           next == IdleAfterCheck(idleFn, idlePc, idleAttempts, idleTimeout, checked)
       IN /\ idleReads' = Append(idleReads, KEEP_RUNNING)
          /\ idlePc' = next
          /\ idleRet' = IF checked.tag = "Err" THEN checked
                        ELSE IF next = "ret" THEN Ok(0) ELSE NoResult
    /\ KEEP_RUNNING' = KeepRunningAfterLoad(KEEP_RUNNING)
    /\ UNCHANGED <<op, variant, pc, idleFn, idleTimeout, idleAttempts,
                   idleWaits, loopVars, result, chainVars, extVars>>

\* thread::yield_now() / thread::park_timeout(..) / thread::sleep(..), then Ok(())
IdleWait ==
    /\ idlePc = "wait"
    /\ idleWaits' = Append(idleWaits, IdleWaitOf(idleFn, idleAttempts, idleTimeout))
    /\ idleRet' = Ok(0)
    /\ idlePc' = "ret"
    /\ UNCHANGED <<KEEP_RUNNING, op, variant, pc, idleFn, idleTimeout, idleAttempts,
                   idleReads, loopVars, result, chainVars, extVars>>

\* an idle function written by the caller: any Result<(), RetryError<E>>
IdleCustom ==
    /\ idlePc = "check"
    /\ idleFn = CustomIdle
    /\ \E r \in {Ok(0), Err(Interrupted), Err(ServiceError([kind |-> "Terminal", payload |-> 0]))} :
          idleRet' = r
    /\ idlePc' = "ret"
    /\ UNCHANGED <<KEEP_RUNNING, op, variant, pc, idleFn, idleTimeout, idleAttempts,
                   idleReads, idleWaits, loopVars, result, chainVars, extVars>>

\* the caller invokes a stock idle strategy directly
IdleCall ==
    /\ op = "none"
    /\ \E fn \in StockIdle, a \in 0..MaxIdleAttempt :
          \E t \in TimeoutsOf(fn) : IdleEnter(fn, t, a)
    /\ op' = "idle"
    /\ pc' = "idle"
    /\ UNCHANGED <<KEEP_RUNNING, variant, loopVars, result, chainVars, extVars>>

IdleReturn ==
    /\ op = "idle"
    /\ idlePc = "ret"
    /\ op' = "none"
    /\ pc' = "none"
    /\ IdleReset
    /\ UNCHANGED <<KEEP_RUNNING, variant, loopVars, result, chainVars, extVars>>

\* ------------------------------------------------------------- RetryService
\* Retryable::parse_retry of the test double: a retryable error hands back the
\* input to retry with, any other error is terminal or an interruption
parse_retry(e) ==
    IF e.kind = "Retry" THEN Ok(e.payload)
    ELSE IF e.kind = "Intr" THEN Err(Interrupted)
    ELSE Err(ServiceError(e))

\* results the wrapped test double can return on attempt a: it produces at
\* most MaxAttempts retryable failures in one call
RetryUnitResults(a) ==
    {UnitOk(v) : v \in Outputs}
      \cup {UnitErr(e) : e \in {x \in UnitErrors : x.kind # "Retry" \/ a < MaxAttempts}}

\* a loop that idles once even after a successful attempt
RetryOnProcess_IdleOnOk(r) == [pc |-> "idle", result |-> NoResult]

\* RetryService::process, `match self.service.process(input)`:
\* Ok(v) => return Ok(v), Err(err) => (self.idle)(attempt)
RetryOnProcess(r) ==
    IF r.tag = "Ok" THEN [pc |-> "done", result |-> Ok(r.val)]
    ELSE [pc |-> "idle", result |-> NoResult]

\* a loop that reports the failed attempt's error when the idle function fails
RetryOnIdle_KeepsError(idled, e, in, a) ==
    IF idled.tag = "Ok"
    THEN LET p == parse_retry(e)
         IN IF p.tag = "Ok"
            THEN [pc |-> "process", input |-> p.val, attempt |-> a + 1,
                  result |-> NoResult, parsed |-> TRUE]
            ELSE [pc |-> "done", input |-> in, attempt |-> a,
                  result |-> Err(p.err), parsed |-> TRUE]
    ELSE [pc |-> "done", input |-> in, attempt |-> a,
          result |-> Err(ServiceError(e)), parsed |-> FALSE]

\* a loop that retries whatever the classifier answers
RetryOnIdle_RetriesTerminal(idled, e, in, a) ==
    IF idled.tag = "Ok"
    THEN LET p == parse_retry(e)
         IN [pc |-> "process", input |-> IF p.tag = "Ok" THEN p.val ELSE in,
             attempt |-> a + 1, result |-> NoResult, parsed |-> TRUE]
    ELSE [pc |-> "done", input |-> in, attempt |-> a,
          result |-> Err(idled.err), parsed |-> FALSE]

\* a loop that retries with the input it already had
RetryOnIdle_KeepsInput(idled, e, in, a) ==
    IF idled.tag = "Ok"
    THEN LET p == parse_retry(e)
         IN IF p.tag = "Ok"
            THEN [pc |-> "process", input |-> in, attempt |-> a + 1,
                  result |-> NoResult, parsed |-> TRUE]
            ELSE [pc |-> "done", input |-> in, attempt |-> a,
                  result |-> Err(p.err), parsed |-> TRUE]
    ELSE [pc |-> "done", input |-> in, attempt |-> a,
          result |-> Err(idled.err), parsed |-> FALSE]

\* a loop that counts a retried attempt twice
RetryOnIdle_CountsTwice(idled, e, in, a) ==
    IF idled.tag = "Ok"
    THEN LET p == parse_retry(e)
         IN IF p.tag = "Ok"
            THEN [pc |-> "process", input |-> p.val, attempt |-> a + 2,
                  result |-> NoResult, parsed |-> TRUE]
            ELSE [pc |-> "done", input |-> in, attempt |-> a,
                  result |-> Err(p.err), parsed |-> TRUE]
    ELSE [pc |-> "done", input |-> in, attempt |-> a,
          result |-> Err(idled.err), parsed |-> FALSE]

\* a loop that classifies the error before it looks at the idle function's result
RetryOnIdle_ClassifiesFirst(idled, e, in, a) ==
    LET p == parse_retry(e)
    IN IF p.tag = "Err"
       THEN [pc |-> "done", input |-> in, attempt |-> a,
             result |-> Err(p.err), parsed |-> TRUE]
       ELSE IF idled.tag = "Ok"
       THEN [pc |-> "process", input |-> p.val, attempt |-> a + 1,
             result |-> NoResult, parsed |-> TRUE]
       ELSE [pc |-> "done", input |-> in, attempt |-> a,
             result |-> Err(idled.err), parsed |-> TRUE]

\* RetryService::process, `match (self.idle)(attempt)`: Err(err) => return
\* Err(err); Ok(()) => match parse_retry(err): Ok(v) => input = v, then
\* attempt += 1 and loop; Err(err) => return Err(err)
RetryOnIdle(idled, e, in, a) ==
    IF idled.tag = "Ok"
    THEN LET p == parse_retry(e)
         IN IF p.tag = "Ok"
            THEN [pc |-> "process", input |-> p.val, attempt |-> a + 1,
                  result |-> NoResult, parsed |-> TRUE]
            ELSE [pc |-> "done", input |-> in, attempt |-> a,
                  result |-> Err(p.err), parsed |-> TRUE]
    ELSE [pc |-> "done", input |-> in, attempt |-> a,
          result |-> Err(idled.err), parsed |-> FALSE]

\* ------------------------------------------- the executor of an async call
\* a Service or MutService call runs on the caller's thread; the future of
\* an AsyncService call is polled on a worker thread of the caller's executor
WorkerAtCall(v) == IF v = "AsyncService" THEN "loop" ELSE "none"

\* `self.service.process(input).await` (`process(()).await`): the unit's
\* future is not ready, the loop's task is suspended and the worker is free
AsyncAwaitPending ==
    /\ op \in {"retry", "poll"}
    /\ variant = "AsyncService"
    /\ pc = "process"
    /\ worker = "loop"
    /\ worker' = "free"
    /\ ~stuck
    /\ UNCHANGED <<KEEP_RUNNING, op, variant, pc, idleVars, loopVars, result, chainVars,
                   rtoVars, idleResults, otherProgress, queueVars, classVars, mutexVars,
                   serverVars, stuckVars, mutChainVars, wrapVars, busVars, maybeVars, wsVars>>

\* the unit's future woke the loop's task: the worker polls it again
AsyncWake ==
    /\ op \in {"retry", "poll", "wrap"}
    /\ worker = "free"
    /\ worker' = "loop"
    /\ UNCHANGED <<KEEP_RUNNING, op, variant, pc, idleVars, loopVars, result, chainVars,
                   rtoVars, idleResults, otherProgress, queueVars, classVars, mutexVars,
                   serverVars, stuckVars, mutChainVars, wrapVars, busVars, maybeVars, wsVars>>

\* another task scheduled on the same worker runs one step; the worker takes
\* it up only while it is not inside the loop's task
OtherTaskStep ==
    /\ op \in {"retry", "poll"}
    /\ worker = "free"
    /\ otherProgress < MaxOtherSteps
    /\ otherProgress' = otherProgress + 1
    /\ UNCHANGED <<KEEP_RUNNING, op, variant, pc, idleVars, loopVars, result, chainVars,
                   rtoVars, idleResults, worker, queueVars, classVars, mutexVars, serverVars,
                   stuckVars, mutChainVars, wrapVars, busVars, maybeVars, wsVars>>

\* impl MutService for RetryService, `match self.service.process(input)`
MutRetryOnProcess(r) ==
    IF r.tag = "Ok" THEN [pc |-> "done", result |-> Ok(r.val)]
    ELSE [pc |-> "idle", result |-> NoResult]

\* impl AsyncService for RetryService, `match self.service.process(input).await`
AsyncRetryOnProcess(r) ==
    IF r.tag = "Ok" THEN [pc |-> "done", result |-> Ok(r.val)]
    ELSE [pc |-> "idle", result |-> NoResult]

\* impl MutService for RetryService, `match (self.idle)(attempt)`
MutRetryOnIdle(idled, e, in, a) ==
    IF idled.tag = "Ok"
    THEN LET p == parse_retry(e)
         IN IF p.tag = "Ok"
            THEN [pc |-> "process", input |-> p.val, attempt |-> a + 1,
                  result |-> NoResult, parsed |-> TRUE]
            ELSE [pc |-> "done", input |-> in, attempt |-> a,
                  result |-> Err(p.err), parsed |-> TRUE]
    ELSE [pc |-> "done", input |-> in, attempt |-> a,
          result |-> Err(idled.err), parsed |-> FALSE]

\* an asynchronous loop that classifies the error before it idles
AsyncRetryOnIdle_ClassifiesFirst(idled, e, in, a) ==
    LET p == parse_retry(e)
    IN IF p.tag = "Err"
       THEN [pc |-> "done", input |-> in, attempt |-> a,
             result |-> Err(p.err), parsed |-> TRUE]
       ELSE IF idled.tag = "Ok"
       THEN [pc |-> "process", input |-> p.val, attempt |-> a + 1,
             result |-> NoResult, parsed |-> TRUE]
       ELSE [pc |-> "done", input |-> in, attempt |-> a,
             result |-> Err(idled.err), parsed |-> TRUE]

\* impl AsyncService for RetryService, `match (self.idle)(attempt)`
AsyncRetryOnIdle(idled, e, in, a) ==
    IF idled.tag = "Ok"
    THEN LET p == parse_retry(e)
         IN IF p.tag = "Ok"
            THEN [pc |-> "process", input |-> p.val, attempt |-> a + 1,
                  result |-> NoResult, parsed |-> TRUE]
            ELSE [pc |-> "done", input |-> in, attempt |-> a,
                  result |-> Err(p.err), parsed |-> TRUE]
    ELSE [pc |-> "done", input |-> in, attempt |-> a,
          result |-> Err(idled.err), parsed |-> FALSE]

\* the implementation of RetryService the caller's trait selects
RetryOnProcessOf(v, r) ==
    CASE v = "Service" -> RetryOnProcess(r)
      [] v = "MutService" -> MutRetryOnProcess(r)
      [] v = "AsyncService" -> AsyncRetryOnProcess(r)

RetryOnIdleOf(v, idled, e, in, a) ==
    CASE v = "Service" -> RetryOnIdle(idled, e, in, a)
      [] v = "MutService" -> MutRetryOnIdle(idled, e, in, a)
      [] v = "AsyncService" -> AsyncRetryOnIdle(idled, e, in, a)

\* the caller invokes RetryService::new(service, idle).process(input)
RetryCall ==
    /\ op = "none"
    /\ op' = "retry"
    /\ pc' = "process"
    /\ \E v \in Variants : variant' = v
    /\ \E fn \in IdleFns : \E t \in TimeoutsOf(fn) :
          /\ idleFn' = fn
          /\ idleTimeout' = t
    /\ \E i \in Inputs : input' = i /\ origInput' = i
    /\ attempt' = 0
    /\ err' = NoErr
    /\ trace' = <<>>
    /\ result' = NoResult
    /\ idleResults' = <<>>
    /\ worker' = WorkerAtCall(variant')
    /\ otherProgress' = 0
    /\ UNCHANGED <<KEEP_RUNNING, idlePc, idleAttempts, idleReads, idleWaits, idleRet, chainVars,
                   rtoVars, queueVars, classVars, mutexVars, serverVars, stuckVars,
                   mutChainVars, wrapVars, busVars, maybeVars, wsVars>>

\* one attempt: self.service.process(input); on Err the idle function is entered
RetryProcess ==
    /\ op = "retry"
    /\ pc = "process"
    /\ worker # "free"
    /\ ~stuck
    /\ \E r \in RetryUnitResults(attempt) :
          LET next == RetryOnProcessOf(variant, r)
          IN /\ pc' = next.pc
             /\ result' = next.result
             /\ err' = r.e
             /\ IF next.pc = "idle"
                THEN /\ trace' = trace \o <<EvProcess(input, r), EvIdle(attempt)>>
                     /\ IdleEnter(idleFn, idleTimeout, attempt)
                ELSE /\ trace' = Append(trace, EvProcess(input, r))
                     /\ UNCHANGED idleVars
    /\ UNCHANGED <<KEEP_RUNNING, op, variant, input, origInput, attempt, chainVars, extVars>>

\* the idle function has returned: return its Err, or classify the error
RetryIdleReturned ==
    /\ op = "retry"
    /\ pc = "idle"
    /\ idlePc = "ret"
    /\ LET next == RetryOnIdleOf(variant, idleRet, err, input, attempt)
       IN /\ pc' = next.pc
          /\ input' = next.input
          /\ attempt' = next.attempt
          /\ result' = next.result
          /\ trace' = IF next.parsed THEN Append(trace, EvParse(err)) ELSE trace
    /\ idlePc' = "none"
    /\ idleResults' = Append(idleResults, idleRet)
    /\ UNCHANGED <<KEEP_RUNNING, op, variant, idleFn, idleTimeout, idleAttempts, idleReads,
                   idleWaits, idleRet, origInput, err, chainVars, rtoVars, execVars,
                   queueVars, classVars, mutexVars, serverVars, stuckVars, mutChainVars,
                   wrapVars, busVars, maybeVars, wsVars>>

\* process has returned to the caller
LoopReturn ==
    /\ op \in {"retry", "poll"}
    /\ pc = "done"
    /\ op' = "none"
    /\ pc' = "none"
    /\ variant' = "Service"
    /\ IdleReset
    /\ input' = 0
    /\ origInput' = 0
    /\ attempt' = 0
    /\ err' = NoErr
    /\ trace' = <<>>
    /\ result' = NoResult
    /\ idleResults' = <<>>
    /\ worker' = "none"
    /\ otherProgress' = 0
    /\ UNCHANGED <<KEEP_RUNNING, chainVars, rtoVars, queueVars, classVars, mutexVars, serverVars,
                   stuckVars, mutChainVars, wrapVars, busVars, maybeVars, wsVars>>

\* -------------------------------------------------------------- PollService
\* results the polled test double can return on attempt a: it reports
\* Ok(None) at most MaxAttempts times in one call
PollUnitResults(a) ==
    {UnitSome(v) : v \in Outputs}
      \cup {UnitErr(e) : e \in PollErrors}
      \cup (IF a < MaxAttempts THEN {UnitNone} ELSE {})

\* a poll that gives up on the first Ok(None)
PollOnProcess_NoBlock(r) ==
    IF r.tag = "Some" THEN [pc |-> "done", result |-> Ok(r.val)]
    ELSE IF r.tag = "NoneYet" THEN [pc |-> "done", result |-> Ok(0)]
    ELSE [pc |-> "done", result |-> Err(ServiceError(r.e))]

\* a poll that idles and polls again after an error of the unit
PollOnProcess_RetriesErr(r) ==
    IF r.tag = "Some" THEN [pc |-> "done", result |-> Ok(r.val)]
    ELSE [pc |-> "idle", result |-> NoResult]

\* a poll that consults its idle function before it returns a value
PollOnProcess_IdlesOnSome(r) ==
    IF r.tag = "Err" THEN [pc |-> "done", result |-> Err(ServiceError(r.e))]
    ELSE [pc |-> "idle", result |-> NoResult]

\* PollService::process, `match self.service.process(())`:
\* Ok(Some(v)) => return Ok(v), Ok(None) => (self.idle)(attempt),
\* Err(err) => return Err(RetryError::ServiceError(err))
PollOnProcess(r) ==
    IF r.tag = "Some" THEN [pc |-> "done", result |-> Ok(r.val)]
    ELSE IF r.tag = "NoneYet" THEN [pc |-> "idle", result |-> NoResult]
    ELSE [pc |-> "done", result |-> Err(ServiceError(r.e))]

\* a poll loop that polls again whatever its idle function returned
PollOnIdle_PollsAgain(idled, a) == [pc |-> "process", attempt |-> a + 1, result |-> NoResult]

\* a poll loop that does not count its attempts
PollOnIdle_KeepsAttempt(idled, a) ==
    IF idled.tag = "Err" THEN [pc |-> "done", attempt |-> a, result |-> Err(idled.err)]
    ELSE [pc |-> "process", attempt |-> a, result |-> NoResult]

\* PollService::process, `if let Err(err) = (self.idle)(attempt) { return
\* Err(err) }`, otherwise attempt += 1 and loop
PollOnIdle(idled, a) ==
    IF idled.tag = "Err" THEN [pc |-> "done", attempt |-> a, result |-> Err(idled.err)]
    ELSE [pc |-> "process", attempt |-> a + 1, result |-> NoResult]

\* the caller invokes PollService::new(service, idle).process(())
PollCall ==
    /\ op = "none"
    /\ op' = "poll"
    /\ pc' = "process"
    /\ \E v \in Variants : variant' = v
    /\ \E fn \in IdleFns : \E t \in TimeoutsOf(fn) :
          /\ idleFn' = fn
          /\ idleTimeout' = t
    /\ attempt' = 0
    /\ trace' = <<>>
    /\ result' = NoResult
    /\ worker' = WorkerAtCall(variant')
    /\ otherProgress' = 0
    /\ UNCHANGED <<KEEP_RUNNING, idlePc, idleAttempts, idleReads, idleWaits, idleRet,
                   input, origInput, err, chainVars, rtoVars, idleResults, queueVars,
                   classVars, mutexVars, serverVars, stuckVars, mutChainVars, wrapVars,
                   busVars, maybeVars, wsVars>>

\* one poll: self.service.process(()); on Ok(None) the idle function is entered
PollProcess ==
    /\ op = "poll"
    /\ pc = "process"
    /\ worker # "free"
    /\ ~stuck
    /\ \E r \in PollUnitResults(attempt) :
          LET next == PollOnProcess(r)
          IN /\ pc' = next.pc
             /\ result' = next.result
             /\ IF next.pc = "idle"
                THEN /\ trace' = trace \o <<EvProcess(0, r), EvIdle(attempt)>>
                     /\ IdleEnter(idleFn, idleTimeout, attempt)
                ELSE /\ trace' = Append(trace, EvProcess(0, r))
                     /\ UNCHANGED idleVars
    /\ UNCHANGED <<KEEP_RUNNING, op, variant, input, origInput, attempt, err, chainVars, extVars>>

\* the idle function has returned: return its Err, or poll again
PollIdleReturned ==
    /\ op = "poll"
    /\ pc = "idle"
    /\ idlePc = "ret"
    /\ LET next == PollOnIdle(idleRet, attempt)
       IN /\ pc' = next.pc
          /\ attempt' = next.attempt
          /\ result' = next.result
    /\ idlePc' = "none"
    /\ UNCHANGED <<KEEP_RUNNING, op, variant, idleFn, idleTimeout, idleAttempts, idleReads,
                   idleWaits, idleRet, input, origInput, err, trace, chainVars, extVars>>

\* ------------------------------------------- capability-widening wrappers
\* wrappers whose process is `self.service.process(input)` on the wrapped unit
Wrappers == {"ServiceMut", "ServiceAsync", "DynService", "DynMutService", "DynAsyncService",
             "ArcService"}

\* a wrapper that answers Ok with a default output whatever the unit returned
WrapperOnProcess_Default(w, r) == UnitOk(0)

\* process of a wrapper: the result of the wrapped unit's process, as it is
WrapperOnProcess(w, r) == r

\* whether the future the wrapper returns can be pending when polled: the
\* body of ServiceAsync::process is a plain call without an await, while
\* DynAsyncService hands out the future of the AsyncService it boxes
WrapperMayPend(w) == w = "DynAsyncService"

\* the caller invokes process(input) on a wrapper around a test double
WrapCall ==
    /\ op = "none"
    /\ op' = "wrap"
    /\ pc' = "inner"
    /\ \E w \in Wrappers :
          /\ wrapper' = w
          /\ worker' = IF w \in {"ServiceAsync", "DynAsyncService"} THEN "loop" ELSE "none"
    /\ \E i \in Inputs : input' = i /\ origInput' = i
    /\ trace' = <<>>
    /\ result' = NoResult
    /\ UNCHANGED <<KEEP_RUNNING, variant, idleVars, attempt, err, chainVars, rtoVars, idleResults,
                   otherProgress, queueVars, classVars, mutexVars, serverVars, stuckVars,
                   mutChainVars, busVars, maybeVars, wsVars>>

\* the future of the boxed AsyncService is not ready: the caller's task is suspended
WrapAwaitPending ==
    /\ op = "wrap"
    /\ pc = "inner"
    /\ worker = "loop"
    /\ WrapperMayPend(wrapper)
    /\ worker' = "free"
    /\ UNCHANGED <<KEEP_RUNNING, op, variant, pc, idleVars, loopVars, result, chainVars,
                   rtoVars, idleResults, otherProgress, queueVars, classVars, mutexVars,
                   serverVars, stuckVars, mutChainVars, wrapVars, busVars, maybeVars, wsVars>>

\* self.service.process(input): the wrapped unit runs and the wrapper returns
WrapInner ==
    /\ op = "wrap"
    /\ pc = "inner"
    /\ worker # "free"
    /\ \E r \in RetryUnitResults(0) :
          LET out == WrapperOnProcess(wrapper, r)
          IN /\ trace' = Append(trace, EvProcess(input, r))
             /\ result' = IF out.tag = "Ok" THEN Ok(out.val) ELSE Err(out.e)
    /\ pc' = "done"
    /\ UNCHANGED <<KEEP_RUNNING, op, variant, idleVars, input, origInput, attempt, err,
                   chainVars, rtoVars, idleResults, execVars, queueVars, classVars, mutexVars,
                   serverVars, stuckVars, mutChainVars, wrapVars, busVars, maybeVars, wsVars>>

\* process has returned to the caller
WrapReturn ==
    /\ op = "wrap"
    /\ pc = "done"
    /\ op' = "none"
    /\ pc' = "none"
    /\ wrapper' = "ServiceMut"
    /\ worker' = "none"
    /\ input' = 0
    /\ origInput' = 0
    /\ trace' = <<>>
    /\ result' = NoResult
    /\ UNCHANGED <<KEEP_RUNNING, variant, idleVars, attempt, err, chainVars, rtoVars, idleResults,
                   otherProgress, queueVars, classVars, mutexVars, serverVars, stuckVars,
                   mutChainVars, busVars, maybeVars, wsVars>>

\* ------------------------------------------------------------- ServiceChain
\* a head that hands on a default value instead of its input
NoOpService_Default(x) == UnitOk(0)

\* NoOpService::process, the head every builder's start() installs
NoOpService(x) == UnitOk(x)

\* the test doubles appended as links: link k adds 2^(k-1) (the AddService
\* 1, 2, 4 of the tests) or fails with its own error
LinkResults(k, x) == {UnitOk(x + 2 ^ (k - 1)), UnitErr(LinkError(k))}

\* a chain that jumps to its last link once the first one has succeeded
ChainOnService_SkipsLinks(r, k, n) ==
    IF r.tag = "Ok"
    THEN IF k = n THEN [pc |-> "done", link |-> k, layers |-> 0, result |-> Ok(r.val)]
         ELSE [pc |-> "service", link |-> n, layers |-> 0, result |-> NoResult]
    ELSE IF k = n
         THEN [pc |-> "done", link |-> k, layers |-> 1, result |-> Err(ServiceChainError(r.e))]
         ELSE [pc |-> "prev_err", link |-> k + 1, layers |-> 1, result |-> NoResult]

\* a chain that goes on to the next link after a failure
ChainOnService_GoesOn(r, k, n) ==
    IF k = n
    THEN [pc |-> "done", link |-> k, layers |-> IF r.tag = "Ok" THEN 0 ELSE 1,
          result |-> IF r.tag = "Ok" THEN Ok(r.val) ELSE Err(ServiceChainError(r.e))]
    ELSE [pc |-> "service", link |-> k + 1, layers |-> 0, result |-> NoResult]

\* ServiceChain::process at chain level k (prev is level k-1, service is
\* link k), `match self.service.process(input)`: Err(e) => return
\* Err(ServiceChainError::new(Box::new(e))), Ok(o) => Ok(o).  A return from
\* level k < n is the result of `self.prev.process(input)` at level k+1: on Ok
\* that level goes on to its own service, on Err it wraps and returns.
ChainOnService(r, k, n) ==
    IF r.tag = "Ok"
    THEN IF k = n THEN [pc |-> "done", link |-> k, layers |-> 0, result |-> Ok(r.val)]
         ELSE [pc |-> "service", link |-> k + 1, layers |-> 0, result |-> NoResult]
    ELSE IF k = n
         THEN [pc |-> "done", link |-> k, layers |-> 1, result |-> Err(ServiceChainError(r.e))]
         ELSE [pc |-> "prev_err", link |-> k + 1, layers |-> 1, result |-> NoResult]

\* a chain level that reports its own link as the cause of a failure of its prev
ChainOnPrevErr_BlamesOwnLink(e, k, n, layers) ==
    IF k = n
    THEN [pc |-> "done", link |-> k, layers |-> layers + 1,
          result |-> Err(ServiceChainError(LinkError(k)))]
    ELSE [pc |-> "prev_err", link |-> k + 1, layers |-> layers + 1, result |-> NoResult]

\* a chain level that hands the error of its prev on as it is
ChainOnPrevErr_NoNewLayer(e, k, n, layers) ==
    IF k = n
    THEN [pc |-> "done", link |-> k, layers |-> layers, result |-> Err(ServiceChainError(e))]
    ELSE [pc |-> "prev_err", link |-> k + 1, layers |-> layers, result |-> NoResult]

\* ServiceChain::process at chain level k, `match self.prev.process(input)`
\* when prev returned Err(e): return Err(ServiceChainError::new(Box::new(e)))
ChainOnPrevErr(e, k, n, layers) ==
    IF k = n
    THEN [pc |-> "done", link |-> k, layers |-> layers + 1, result |-> Err(ServiceChainError(e))]
    ELSE [pc |-> "prev_err", link |-> k + 1, layers |-> layers + 1, result |-> NoResult]

\* the caller invokes process(x) on a chain built by start(..), n-1 times
\* next(..), end(); the call descends through every level's prev
ChainCall ==
    /\ op = "none"
    /\ op' = "chain"
    /\ pc' = "prev"
    /\ \E v \in Variants : variant' = v
    /\ \E n \in 1..MaxLinks : chainLen' = n
    /\ \E x \in ChainInputs : chainValue' = x
    /\ chainLink' = 0
    /\ chainInvoked' = <<>>
    /\ chainFailed' = <<>>
    /\ chainLayers' = 0
    /\ chainIO' = <<>>
    /\ result' = NoResult
    /\ UNCHANGED <<KEEP_RUNNING, idleVars, loopVars, extVars>>

\* the innermost prev, NoOpService, returns Ok(input)
ChainNoOp ==
    /\ op = "chain"
    /\ pc = "prev"
    /\ LET r == NoOpService(chainValue)
       IN /\ chainValue' = r.val
          /\ chainInvoked' = Append(chainInvoked, 0)
          /\ chainIO' = Append(chainIO, EvLink(0, chainValue, r))
          /\ chainLink' = 1
          /\ pc' = "service"
    /\ UNCHANGED <<KEEP_RUNNING, op, variant, idleVars, loopVars, result, chainLen,
                   chainFailed, chainLayers, extVars>>

\* a chain level invokes its service with the output of its prev; the links
\* of an asynchronous chain are synchronous doubles behind ServiceAsync
ChainService ==
    /\ op = "chain"
    /\ pc = "service"
    /\ \E inner \in LinkResults(chainLink, chainValue) :
          LET r == IF variant = "AsyncService" THEN WrapperOnProcess("ServiceAsync", inner)
                   ELSE inner
              next == ChainOnService(r, chainLink, chainLen)
          IN /\ pc' = next.pc
             /\ chainLink' = next.link
             /\ chainLayers' = next.layers
             /\ result' = next.result
             /\ chainValue' = IF r.tag = "Ok" THEN r.val ELSE chainValue
             /\ chainFailed' = IF r.tag = "Err" THEN Append(chainFailed, chainLink)
                               ELSE chainFailed
             /\ chainInvoked' = Append(chainInvoked, chainLink)
             /\ chainIO' = Append(chainIO, EvLink(chainLink, chainValue, inner))
    /\ UNCHANGED <<KEEP_RUNNING, op, variant, idleVars, loopVars, chainLen, extVars>>

\* a chain level whose prev returned Err wraps the error and returns
ChainPrevErr ==
    /\ op = "chain"
    /\ pc = "prev_err"
    /\ LET next == ChainOnPrevErr(LinkError(chainFailed[1]), chainLink, chainLen, chainLayers)
       IN /\ pc' = next.pc
          /\ chainLink' = next.link
          /\ chainLayers' = next.layers
          /\ result' = next.result
    /\ UNCHANGED <<KEEP_RUNNING, op, variant, idleVars, loopVars, chainLen, chainValue,
                   chainInvoked, chainFailed, chainIO, extVars>>

\* process has returned to the caller
ChainReturn ==
    /\ op = "chain"
    /\ pc = "done"
    /\ op' = "none"
    /\ pc' = "none"
    /\ variant' = "Service"
    /\ chainLen' = 1
    /\ chainLink' = 0
    /\ chainValue' = 0
    /\ chainInvoked' = <<>>
    /\ chainFailed' = <<>>
    /\ chainLayers' = 0
    /\ chainIO' = <<>>
    /\ result' = NoResult
    /\ UNCHANGED <<KEEP_RUNNING, idleVars, loopVars, extVars>>

\* ------------------------------------------------------ RetryToOptionService
RtoUnits == {"double", "MpscTryReceiver", "ArrayQueuePusher"}

\* contents an mpsc channel can have when the receiver is asked
ChanContents == UNION {[1..n -> Outputs] : n \in 0..MaxChan}

\* MpscTryReceiver::process, self.rx.try_recv(): the oldest value if one is
\* waiting, else Disconnected when every Sender is gone, else Empty
try_recv(c, senders) ==
    IF c # <<>> THEN UnitOk(Head(c))
    ELSE IF senders THEN UnitErr(TryRecvEmpty)
    ELSE UnitErr(TryRecvDisconnected)

\* a classifier for which every error is terminal
MpscTryReceiver_parse_retry_AllTerminal(e) == Err(ServiceError(e))

\* MpscTryReceiver::parse_retry: Empty => Ok(()), err => Err(ServiceError(err))
MpscTryReceiver_parse_retry(e) ==
    IF e.kind = "Empty" THEN Ok(0) ELSE Err(ServiceError(e))

\* a pusher that makes room by dropping the oldest element, as force_push does
ArrayQueuePusher_process_ForcePush(queue, x) ==
    IF Len(queue) < QueueCap THEN [q |-> Append(queue, x), r |-> UnitOk(0)]
    ELSE [q |-> Append(Tail(queue), x), r |-> UnitOk(0)]

\* ArrayQueuePusher::process, self.q.push(input): Ok(()) with the element
\* appended, or Err(element) when the queue is full
ArrayQueuePusher_process(queue, x) ==
    IF Len(queue) < QueueCap THEN [q |-> Append(queue, x), r |-> UnitOk(0)]
    ELSE [q |-> queue, r |-> UnitErr([kind |-> "Full", payload |-> x])]

\* ArrayQueuePusher::parse_retry: Ok(err), the rejected element is the next input
ArrayQueuePusher_parse_retry(e) == Ok(e.payload)

\* Retryable::parse_retry of the wrapped unit
ParseRetryOf(unit, e) ==
    CASE unit = "MpscTryReceiver" -> MpscTryReceiver_parse_retry(e)
      [] unit = "ArrayQueuePusher" -> ArrayQueuePusher_parse_retry(e)
      [] OTHER -> parse_retry(e)

\* an adapter that hands out the input its classifier recovered
RetryToOptionOnProcess_ReturnsRecovered(r, p) ==
    IF r.tag = "Ok" THEN OkSome(r.val)
    ELSE IF p.tag = "Ok" THEN OkSome(p.val)
    ELSE Err(p.err)

\* an adapter that answers Ok(None) whatever the classifier says
RetryToOptionOnProcess_SwallowsAll(r, p) ==
    IF r.tag = "Ok" THEN OkSome(r.val) ELSE OkNone

\* RetryToOptionService::process: Ok(v) => Ok(Some(v)); Err(err) => match
\* parse_retry(err): Ok(_) => Ok(None), Err(err) => Err(err).  p is the
\* classifier's answer for the error of r.
RetryToOptionOnProcess(r, p) ==
    IF r.tag = "Ok" THEN OkSome(r.val)
    ELSE IF p.tag = "Ok" THEN OkNone
    ELSE Err(p.err)

\* the caller invokes RetryToOptionService::new(service).process(input)
RtoCall ==
    /\ op = "none"
    /\ op' = "rto"
    /\ pc' = "process"
    /\ \E u \in RtoUnits :
          /\ rtoUnit' = u
          /\ IF u = "MpscTryReceiver"
             THEN /\ \E c \in ChanContents : chan' = c
                  /\ \E b \in BOOLEAN : chanSenders' = b
                  /\ input' = 0 /\ origInput' = 0
             ELSE /\ chan' = <<>> /\ chanSenders' = TRUE
                  /\ \E i \in Inputs : input' = i /\ origInput' = i
          /\ IF u = "ArrayQueuePusher"
             THEN \E c \in UNION {[1..n -> Inputs] : n \in 0..QueueCap} : q' = c
             ELSE q' = <<>>
    /\ trace' = <<>>
    /\ result' = NoResult
    /\ UNCHANGED <<KEEP_RUNNING, variant, idleVars, attempt, err, chainVars, idleResults, execVars,
                   th, received, classVars, mutexVars, serverVars, stuckVars, mutChainVars,
                   wrapVars, busVars, maybeVars, wsVars>>

\* the single attempt: self.service.process(input), and parse_retry on Err
RtoProcess ==
    /\ op = "rto"
    /\ pc = "process"
    /\ \E r \in (CASE rtoUnit = "MpscTryReceiver" -> {try_recv(chan, chanSenders)}
                   [] rtoUnit = "ArrayQueuePusher" -> {ArrayQueuePusher_process(q, input).r}
                   [] OTHER -> RetryUnitResults(0)) :
          /\ result' = RetryToOptionOnProcess(r, ParseRetryOf(rtoUnit, r.e))
          /\ err' = r.e
          /\ trace' = IF r.tag = "Ok" THEN <<EvProcess(input, r)>>
                      ELSE <<EvProcess(input, r), EvParse(r.e)>>
          /\ chan' = IF rtoUnit = "MpscTryReceiver" /\ r.tag = "Ok" THEN Tail(chan) ELSE chan
          /\ q' = IF rtoUnit = "ArrayQueuePusher" THEN ArrayQueuePusher_process(q, input).q ELSE q
    /\ pc' = "done"
    /\ UNCHANGED <<KEEP_RUNNING, op, variant, idleVars, input, origInput, attempt, chainVars,
                   rtoUnit, chanSenders, idleResults, execVars, th, received, classVars,
                   mutexVars, serverVars, stuckVars, mutChainVars, wrapVars, busVars,
                   maybeVars, wsVars>>

\* process has returned to the caller
RtoReturn ==
    /\ op = "rto"
    /\ pc = "done"
    /\ op' = "none"
    /\ pc' = "none"
    /\ input' = 0
    /\ origInput' = 0
    /\ err' = NoErr
    /\ trace' = <<>>
    /\ result' = NoResult
    /\ rtoUnit' = "double"
    /\ chan' = <<>>
    /\ chanSenders' = TRUE
    /\ q' = <<>>
    /\ UNCHANGED <<KEEP_RUNNING, variant, idleVars, attempt, chainVars, idleResults, execVars,
                   th, received, classVars, mutexVars, serverVars, stuckVars, mutChainVars,
                   wrapVars, busVars, maybeVars, wsVars>>

\* ------------------------------------------------- spawn_loop, spawn_loop_mut
\* results of the looped test double: any Ok, any Err
SpawnLoopUnitResults ==
    {UnitOk(v) : v \in Outputs} \cup {UnitErr(e) : e \in PollErrors \cup {LinkError(1)}}

\* a loop that hands every result to the handler
SpawnLoopOnProcess_HandlesOk(r) == "handler"

\* `if let Err(err) = service.process(())`: the handler runs for an Err only
SpawnLoopOnProcess(r) == IF r.tag = "Err" THEN "handler" ELSE "process"

\* a loop that stops when the handler is content
SpawnLoopOnHandler_ExitsOnOk(ret) == IF ret = "Ok" THEN "exited" ELSE "process"

\* `if let Err(_) = error_handler(err) { return; }`
SpawnLoopOnHandler(ret) == IF ret = "Err" THEN "exited" ELSE "process"

\* spawn_loop(service, error_handler) or spawn_loop_mut(...): the new thread
\* enters its loop
SpawnLoop ==
    /\ op = "none"
    /\ op' = "loop"
    /\ pc' = "process"
    /\ \E v \in {"Service", "MutService"} : variant' = v
    /\ trace' = <<>>
    /\ UNCHANGED <<KEEP_RUNNING, idleVars, input, origInput, attempt, err, result, chainVars,
                   extVars>>

\* service.process(()) on the loop's thread
SpawnLoopProcess ==
    /\ op = "loop"
    /\ pc = "process"
    /\ ~stuck
    /\ Cardinality({k \in DOMAIN trace : trace[k].call = "process"}) < MaxLoopCalls
    /\ \E r \in SpawnLoopUnitResults :
          /\ pc' = SpawnLoopOnProcess(r)
          /\ err' = r.e
          /\ trace' = Append(trace, EvProcess(0, r))
    /\ UNCHANGED <<KEEP_RUNNING, op, variant, idleVars, input, origInput, attempt, result,
                   chainVars, extVars>>

\* error_handler(err) on the loop's thread
SpawnLoopHandler ==
    /\ op = "loop"
    /\ pc = "handler"
    /\ \E ret \in {"Ok", "Err"} :
          /\ pc' = SpawnLoopOnHandler(ret)
          /\ trace' = Append(trace, EvHandler(err, ret))
    /\ UNCHANGED <<KEEP_RUNNING, op, variant, idleVars, input, origInput, attempt, err, result,
                   chainVars, extVars>>

\* the closure has returned: the thread is over and its JoinHandle is joined
SpawnLoopExit ==
    /\ op = "loop"
    /\ pc = "exited"
    /\ op' = "none"
    /\ pc' = "none"
    /\ variant' = "Service"
    /\ err' = NoErr
    /\ trace' = <<>>
    /\ UNCHANGED <<KEEP_RUNNING, idleVars, input, origInput, attempt, result, chainVars,
                   extVars>>

\* ------------------------------------------------------ CloningForkService
\* entry of the call history of a fork: sibling k was given `in` and returned r
EvFork(k, in, r) == [call |-> k, arg |-> in, out |-> r.tag, val |-> r.val, e |-> r.e]

\* results of the two sibling test doubles: any output, or the sibling's own error
ForkResults(k) == {UnitOk(v) : v \in Outputs} \cup {UnitErr(LinkError(k))}

\* input.clone(): an equal value, which the first sibling takes
CloneOf(in) == in

\* a fork that runs the second sibling although the first has failed
ForkOnFirst_RunsBoth(r) == [pc |-> "second", result |-> NoResult]

\* CloningForkService::process, `self.first.process(input.clone())?`
ForkOnFirst(r) ==
    IF r.tag = "Err" THEN [pc |-> "done", result |-> Err(r.e)]
    ELSE [pc |-> "second", result |-> NoResult]

\* CloningForkService::process, `self.second.process(input)?` and the Ok((.., ..))
ForkOnSecond(out1, r) ==
    IF r.tag = "Err" THEN [pc |-> "done", result |-> Err(r.e)]
    ELSE [pc |-> "done", result |-> Ok(<<out1, r.val>>)]

\* the caller invokes CloningForkService::new(first, second).process(input)
ForkCall ==
    /\ op = "none"
    /\ op' = "fork"
    /\ pc' = "first"
    /\ \E v \in Variants : variant' = v
    /\ \E i \in Inputs : input' = i /\ origInput' = i
    /\ trace' = <<>>
    /\ result' = NoResult
    /\ UNCHANGED <<KEEP_RUNNING, idleVars, attempt, err, chainVars, rtoVars, idleResults,
                   execVars, queueVars, classVars, mutexVars, serverVars, stuckVars,
                   mutChainVars, wrapVars, busVars, maybeVars, wsVars>>

\* self.first.process(input.clone())
ForkFirst ==
    /\ op = "fork"
    /\ pc = "first"
    /\ \E r \in ForkResults(1) :
          LET next == ForkOnFirst(r)
          IN /\ pc' = next.pc
             /\ result' = next.result
             /\ trace' = Append(trace, EvFork("first", CloneOf(input), r))
    /\ UNCHANGED <<KEEP_RUNNING, op, variant, idleVars, input, origInput, attempt, err,
                   chainVars, rtoVars, idleResults, execVars, queueVars, classVars, mutexVars,
                   serverVars, stuckVars, mutChainVars, wrapVars, busVars, maybeVars, wsVars>>

\* self.second.process(input)
ForkSecond ==
    /\ op = "fork"
    /\ pc = "second"
    /\ \E r \in ForkResults(2) :
          LET next == ForkOnSecond(trace[1].val, r)
          IN /\ pc' = next.pc
             /\ result' = next.result
             /\ trace' = Append(trace, EvFork("second", input, r))
    /\ UNCHANGED <<KEEP_RUNNING, op, variant, idleVars, input, origInput, attempt, err,
                   chainVars, rtoVars, idleResults, execVars, queueVars, classVars, mutexVars,
                   serverVars, stuckVars, mutChainVars, wrapVars, busVars, maybeVars, wsVars>>

\* process has returned to the caller
ForkReturn ==
    /\ op = "fork"
    /\ pc = "done"
    /\ op' = "none"
    /\ pc' = "none"
    /\ variant' = "Service"
    /\ input' = 0
    /\ origInput' = 0
    /\ trace' = <<>>
    /\ result' = NoResult
    /\ UNCHANGED <<KEEP_RUNNING, idleVars, attempt, err, chainVars, rtoVars, idleResults,
                   execVars, queueVars, classVars, mutexVars, serverVars, stuckVars,
                   mutChainVars, wrapVars, busVars, maybeVars, wsVars>>

\* ---------------------------------------- a MutService chain called repeatedly
\* the inputs fed to the chain (1, 2, 4 in mut_service_chain)
MutChainInputs == {1, 2, 4}

\* AppendService::process: self.n += input; Ok(self.n)
AppendService_process(n, x) == [n |-> n + x, r |-> UnitOk(n + x)]

\* a chain that starts from a fresh unit at every call
MutChainProcess_FreshUnit(n, x) == AppendService_process(0, x)

\* impl MutService for ServiceChain: self.prev.process(input), the
\* NoOpService head of start_mut, then self.service.process(input) on the
\* unit the chain owns
MutChainProcess(n, x) ==
    LET head == NoOpService(x)
    IN AppendService_process(n, head.val)

\* ServiceChain::start_mut(AppendService::new()).end()
MutChainStart ==
    /\ op = "none"
    /\ op' = "mutchain"
    /\ pc' = "built"
    /\ appendN' = 0
    /\ mcIn' = <<>>
    /\ mcOut' = <<>>
    /\ UNCHANGED <<KEEP_RUNNING, variant, idleVars, loopVars, result, chainVars, rtoVars,
                   idleResults, execVars, queueVars, classVars, mutexVars, serverVars,
                   stuckVars, wrapVars, busVars, maybeVars, wsVars>>

\* chain.process(input).unwrap() on the same chain
MutChainCall ==
    /\ op = "mutchain"
    /\ Len(mcIn) < MaxChainCalls
    /\ \E i \in MutChainInputs :
          LET after == MutChainProcess(appendN, i)
          IN /\ appendN' = after.n
             /\ mcIn' = Append(mcIn, i)
             /\ mcOut' = Append(mcOut, after.r.val)
    /\ UNCHANGED <<KEEP_RUNNING, op, variant, pc, idleVars, loopVars, result, chainVars,
                   rtoVars, idleResults, execVars, queueVars, classVars, mutexVars, serverVars,
                   stuckVars, wrapVars, busVars, maybeVars, wsVars>>

\* the chain goes out of scope
MutChainDrop ==
    /\ op = "mutchain"
    /\ op' = "none"
    /\ pc' = "none"
    /\ appendN' = 0
    /\ mcIn' = <<>>
    /\ mcOut' = <<>>
    /\ UNCHANGED <<KEEP_RUNNING, variant, idleVars, loopVars, result, chainVars, rtoVars,
                   idleResults, execVars, queueVars, classVars, mutexVars, serverVars,
                   stuckVars, wrapVars, busVars, maybeVars, wsVars>>

\* ------------------------------------------------------ MaybeProcessService
\* an adapter that hands a default input to the unit when it is given None
MaybeOnInput_AlwaysInvokes(some) == [pc |-> "inner", result |-> NoResult]

\* MaybeProcessService::process, `match input`: None => Ok(None), Some(input)
\* => the unit is called
MaybeOnInput(some) ==
    IF some THEN [pc |-> "inner", result |-> NoResult]
    ELSE [pc |-> "done", result |-> OkNone]

\* MaybeProcessService::process, `Ok(Some(self.service.process(input)?))`
MaybeOnProcess(r) == IF r.tag = "Ok" THEN OkSome(r.val) ELSE Err(r.e)

\* the caller invokes MaybeProcessService::new(service).process(None / Some(i))
MaybeCall ==
    /\ op = "none"
    /\ op' = "maybe"
    /\ pc' = "match"
    /\ \E s \in BOOLEAN :
          /\ maybeSome' = s
          /\ \E i \in (IF s THEN Inputs ELSE {0}) : input' = i /\ origInput' = i
    /\ trace' = <<>>
    /\ result' = NoResult
    /\ UNCHANGED <<KEEP_RUNNING, variant, idleVars,  attempt, err, chainVars, rtoVars, idleResults,
                   execVars, queueVars, classVars, mutexVars, serverVars, stuckVars,
                   mutChainVars, wrapVars, busVars, wsVars>>

\* `match input`
MaybeMatch ==
    /\ op = "maybe"
    /\ pc = "match"
    /\ LET next == MaybeOnInput(maybeSome)
       IN /\ pc' = next.pc
          /\ result' = next.result
    /\ UNCHANGED <<KEEP_RUNNING, op, variant, idleVars, input, origInput, trace, attempt, err, chainVars, rtoVars, idleResults,
                   execVars, queueVars, classVars, mutexVars, serverVars, stuckVars,
                   mutChainVars, wrapVars, busVars, maybeVars, wsVars>>

\* self.service.process(input) and the `?`
MaybeInner ==
    /\ op = "maybe"
    /\ pc = "inner"
    /\ \E r \in RetryUnitResults(0) :
          /\ trace' = Append(trace, EvProcess(input, r))
          /\ result' = MaybeOnProcess(r)
    /\ pc' = "done"
    /\ UNCHANGED <<KEEP_RUNNING, op, variant, idleVars, input, origInput, attempt, err, chainVars, rtoVars, idleResults,
                   execVars, queueVars, classVars, mutexVars, serverVars, stuckVars,
                   mutChainVars, wrapVars, busVars, maybeVars, wsVars>>

\* process has returned to the caller
MaybeReturn ==
    /\ op = "maybe"
    /\ pc = "done"
    /\ op' = "none"
    /\ pc' = "none"
    /\ maybeSome' = FALSE
    /\ input' = 0
    /\ origInput' = 0
    /\ trace' = <<>>
    /\ result' = NoResult
    /\ UNCHANGED <<KEEP_RUNNING, variant, idleVars,  attempt, err, chainVars, rtoVars, idleResults,
                   execVars, queueVars, classVars, mutexVars, serverVars, stuckVars,
                   mutChainVars, wrapVars, busVars, wsVars>>

\* ------------------------------------------------------------------ sod-bus
\* whether the ring of the bus has no free slot: some receiver is still
\* BusLen values behind
BusFull(log, readers) ==
    \E r \in BusReaderIds :
        readers[r].reg >= 0 /\ Len(log) - (readers[r].reg + Len(readers[r].got)) >= BusLen

\* BusTryBroadcaster::process, self.bus.try_broadcast(input): Err(input) when full
BusTryBroadcaster_process(log, readers, v) ==
    IF BusFull(log, readers) THEN [log |-> log, r |-> UnitErr([kind |-> "Full", payload |-> v])]
    ELSE [log |-> Append(log, v), r |-> UnitOk(0)]

\* a receiver that hands out the newest value of the bus
BusReader_try_recv_Newest(log, reader) ==
    IF reader.reg + Len(reader.got) < Len(log) THEN UnitOk(log[Len(log)])
    ELSE UnitErr(TryRecvEmpty)

\* BusTryReceiver::process, self.reader.try_recv(): the oldest value this
\* receiver has not returned yet, Empty when there is none
BusReader_try_recv(log, reader) ==
    IF reader.reg + Len(reader.got) < Len(log)
    THEN UnitOk(log[reader.reg + Len(reader.got) + 1])
    ELSE UnitErr(TryRecvEmpty)

\* BusBroadcaster::new(Bus::new(len)) or BusTryBroadcaster::new(..)
BusCreate ==
    /\ op = "none"
    /\ op' = "bus"
    /\ pc' = "open"
    /\ \E k \in {"BusBroadcaster", "BusTryBroadcaster"} : busKind' = k
    /\ busLog' = <<>>
    /\ busLast' = NoResult
    /\ busReaders' = [r \in BusReaderIds |-> NoBusReader]
    /\ UNCHANGED <<KEEP_RUNNING, variant, idleVars, loopVars, result, chainVars, rtoVars,
                   idleResults, execVars, queueVars, classVars, mutexVars, serverVars,
                   stuckVars, mutChainVars, wrapVars, maybeVars, wsVars>>

\* create_receiver() / create_try_receiver(): self.bus.add_rx()
BusAddReceiver ==
    /\ op = "bus"
    /\ \E r \in BusReaderIds :
          /\ busReaders[r].reg = -1
          /\ busReaders' = [busReaders EXCEPT ![r].reg = Len(busLog)]
    /\ UNCHANGED <<KEEP_RUNNING, op, variant, pc, idleVars, loopVars, result, chainVars, rtoVars,
                   idleResults, execVars, queueVars, classVars, mutexVars, serverVars,
                   stuckVars, mutChainVars, wrapVars, busKind, busLog, busLast, maybeVars,
                   wsVars>>

\* broadcaster.process(v) with v = 1, 2, 3, ... as in the tests:
\* BusBroadcaster blocks while the bus is full, BusTryBroadcaster returns
\* Err(v) instead
BusBroadcast ==
    /\ op = "bus"
    /\ Len(busLog) < MaxBroadcasts
    /\ busKind = "BusBroadcaster" => ~BusFull(busLog, busReaders)
    /\ LET after == BusTryBroadcaster_process(busLog, busReaders, Len(busLog) + 1)
       IN /\ busLog' = after.log
          /\ busLast' = IF after.r.tag = "Ok" THEN Ok(0) ELSE Err(after.r.e)
    /\ UNCHANGED <<KEEP_RUNNING, op, variant, pc, idleVars, loopVars, result, chainVars, rtoVars,
                   idleResults, execVars, queueVars, classVars, mutexVars, serverVars,
                   stuckVars, mutChainVars, wrapVars, busKind, busReaders, maybeVars, wsVars>>

\* receiver.process(()): BusReceiver blocks while it has read everything,
\* BusTryReceiver returns Err(Empty) instead
BusReceive ==
    /\ op = "bus"
    /\ \E r \in BusReaderIds :
          LET got == BusReader_try_recv(busLog, busReaders[r])
          IN /\ busReaders[r].reg >= 0
             /\ busKind = "BusBroadcaster" => got.tag = "Ok"
             /\ busReaders' = [busReaders EXCEPT
                                  ![r].got = IF got.tag = "Ok" THEN Append(@, got.val) ELSE @,
                                  ![r].last = IF got.tag = "Ok" THEN Ok(got.val) ELSE Err(got.e),
                                  ![r].seen = Len(busLog)]
    /\ UNCHANGED <<KEEP_RUNNING, op, variant, pc, idleVars, loopVars, result, chainVars, rtoVars,
                   idleResults, execVars, queueVars, classVars, mutexVars, serverVars,
                   stuckVars, mutChainVars, wrapVars, busKind, busLog, busLast, maybeVars,
                   wsVars>>

\* the broadcaster and its receivers go out of scope
BusDrop ==
    /\ op = "bus"
    /\ op' = "none"
    /\ pc' = "none"
    /\ busKind' = "BusBroadcaster"
    /\ busLog' = <<>>
    /\ busLast' = NoResult
    /\ busReaders' = [r \in BusReaderIds |-> NoBusReader]
    /\ UNCHANGED <<KEEP_RUNNING, variant, idleVars, loopVars, result, chainVars, rtoVars,
                   idleResults, execVars, queueVars, classVars, mutexVars, serverVars,
                   stuckVars, mutChainVars, wrapVars, maybeVars, wsVars>>

\* ------------------------------------------- a unit call that never returns
\* a loop that gives up a pending unit call once the flag is false
WhileUnitPending_ChecksFlag(flag) ==
    IF flag THEN [stuck |-> TRUE, pc |-> "process", result |-> NoResult]
    ELSE [stuck |-> FALSE, pc |-> "done", result |-> Err(Interrupted)]

\* `match self.service.process(input)` / `service.process(())`: a plain
\* call; the caller is inside it until it returns, whatever the flag says
WhileUnitPending(flag) == [stuck |-> TRUE, pc |-> "process", result |-> NoResult]

\* the wrapped unit's process is entered and does not return
UnitHangs ==
    /\ op \in {"retry", "poll", "loop"}
    /\ pc = "process"
    /\ worker # "free"
    /\ ~stuck
    /\ stuck' = TRUE
    /\ UNCHANGED <<KEEP_RUNNING, op, variant, pc, idleVars, loopVars, result, chainVars, rtoVars,
                   idleResults, execVars, queueVars, classVars, mutexVars, serverVars, stuckTicks,
                   mutChainVars, wrapVars, busVars, maybeVars, wsVars>>

\* time goes by while the caller is inside the unit
UnitStuckStep ==
    /\ op \in {"retry", "poll", "loop"}
    /\ stuck
    /\ stuckTicks < MaxStuckTicks
    /\ stuckTicks' = stuckTicks + 1
    /\ LET next == WhileUnitPending(KEEP_RUNNING)
       IN /\ stuck' = next.stuck
          /\ pc' = next.pc
          /\ result' = next.result
    /\ UNCHANGED <<KEEP_RUNNING, op, variant, idleVars, loopVars, chainVars, rtoVars,
                   idleResults, execVars, queueVars, classVars, mutexVars, serverVars,
                   mutChainVars, wrapVars, busVars, maybeVars, wsVars>>

\* ------------------------------------ retry classifiers of channel adapters
\* the adapters over std::sync::mpsc and bus channels that are Retryable
ChannelAdapters == {"MpscTryReceiver", "MpscSyncTrySender", "BusTryReceiver"}

\* std::sync::mpsc::TrySendError<T>: both variants carry the value not sent
TrySendFull(v) == [kind |-> "Full", payload |-> v]
TrySendDisconnected(v) == [kind |-> "Disconnected", payload |-> v]

\* the errors an adapter's process can return
AdapterErrors(u) ==
    IF u = "MpscSyncTrySender"
    THEN {TrySendFull(v) : v \in Inputs} \cup {TrySendDisconnected(v) : v \in Inputs}
    ELSE {TryRecvEmpty, TryRecvDisconnected}

\* a sender that asks for a retry with the value a closed channel handed back
MpscSyncTrySender_parse_retry_RetriesDisconnected(e) == Ok(e.payload)

\* MpscSyncTrySender::parse_retry: Full(input) => Ok(input), err => Err(ServiceError(err))
MpscSyncTrySender_parse_retry(e) ==
    IF e.kind = "Full" THEN Ok(e.payload) ELSE Err(ServiceError(e))

\* BusTryReceiver::parse_retry: Disconnected => Err(ServiceError(Disconnected)), Empty => Ok(())
BusTryReceiver_parse_retry(e) ==
    IF e.kind = "Disconnected" THEN Err(ServiceError(TryRecvDisconnected))
    ELSE Ok(0)

\* parse_retry of the given adapter
AdapterParseRetry(u, e) ==
    CASE u = "MpscTryReceiver" -> MpscTryReceiver_parse_retry(e)
      [] u = "MpscSyncTrySender" -> MpscSyncTrySender_parse_retry(e)
      [] u = "BusTryReceiver" -> BusTryReceiver_parse_retry(e)

\* the caller (a retry loop, an adapter) hands an error of the unit to its classifier
ParseRetryCall ==
    /\ op = "none"
    /\ op' = "parse"
    /\ pc' = "done"
    /\ \E u \in ChannelAdapters : \E e \in AdapterErrors(u) :
          /\ retryable' = u
          /\ err' = e
          /\ result' = AdapterParseRetry(u, e)
          /\ trace' = <<EvParse(e)>>
    /\ UNCHANGED <<KEEP_RUNNING, variant, idleVars, input, origInput, attempt, chainVars,
                   rtoVars, idleResults, execVars, queueVars, mutexVars, serverVars, stuckVars,
                   mutChainVars, wrapVars, busVars, maybeVars, wsVars>>

\* parse_retry has returned
ParseRetryReturn ==
    /\ op = "parse"
    /\ op' = "none"
    /\ pc' = "none"
    /\ retryable' = "MpscTryReceiver"
    /\ err' = NoErr
    /\ result' = NoResult
    /\ trace' = <<>>
    /\ UNCHANGED <<KEEP_RUNNING, variant, idleVars, input, origInput, attempt, chainVars,
                   rtoVars, idleResults, execVars, queueVars, mutexVars, serverVars, stuckVars,
                   mutChainVars, wrapVars, busVars, maybeVars, wsVars>>

\* ------------------------------------------- push_with_retry: two threads
mainVars == <<op, variant, pc, idleVars, loopVars, result, chainVars, rtoVars, idleResults,
              execVars,
              classVars,
              mutexVars,
              serverVars,
              stuckVars,
              mutChainVars,
              wrapVars,
              busVars,
              maybeVars,
              wsVars>>

\* ArrayQueuePopper::process, Ok(self.q.pop())
ArrayQueuePopper_process(queue) ==
    IF queue = <<>> THEN [q |-> queue, r |-> UnitNone]
    ELSE [q |-> Tail(queue), r |-> UnitSome(Head(queue))]

\* a retry loop that tries again although its idle function failed
PushRetryOnIdle_IgnoresIdleErr(idled, e, in, a) ==
    LET p == ArrayQueuePusher_parse_retry(e)
    IN [pc |-> "process", input |-> p.val, attempt |-> a + 1, result |-> NoResult]

\* RetryService::process over an ArrayQueuePusher, `match (self.idle)(attempt)`
PushRetryOnIdle(idled, e, in, a) ==
    IF idled.tag = "Ok"
    THEN LET p == ArrayQueuePusher_parse_retry(e)
         IN IF p.tag = "Ok"
            THEN [pc |-> "process", input |-> p.val, attempt |-> a + 1, result |-> NoResult]
            ELSE [pc |-> "done", input |-> in, attempt |-> a, result |-> Err(p.err)]
    ELSE [pc |-> "done", input |-> in, attempt |-> a, result |-> Err(idled.err)]

\* the frame of a thread whose attempt returned r: the call is over or its
\* idle function is entered
ThreadAfterProcess(f, next, r) ==
    [f EXCEPT !.pc = next.pc,
              !.result = next.result,
              !.err = r.e,
              !.since = IF KEEP_RUNNING THEN @ ELSE @ + 1,
              !.idlePc = IF next.pc = "idle" THEN "check" ELSE "none",
              !.idleRet = NoResult,
              !.idleFalse = next.pc = "idle" /\ ~KEEP_RUNNING]

\* external code stores to the flag while the two threads run
QueueStoreKeepRunning ==
    /\ \E b \in BOOLEAN : b # KEEP_RUNNING /\ KEEP_RUNNING' = b
    /\ th' = [t \in Threads |-> [th[t] EXCEPT !.since = 0, !.idleFalse = FALSE]]
    /\ UNCHANGED <<mainVars, q, received>>

\* `for i in 0..1024`: the next process call of the thread, or the end of its loop
ThreadCall(t) ==
    /\ th[t].pc = "call"
    /\ th' = [th EXCEPT ![t] =
                 IF th[t].i < NumItems
                 THEN [@ EXCEPT !.pc = "process",
                                !.input = IF t = "producer" THEN th[t].i ELSE 0,
                                !.attempt = 0, !.err = NoErr, !.result = NoResult,
                                !.since = 0, !.idleFalse = FALSE, !.retried = FALSE]
                 ELSE [@ EXCEPT !.pc = "finished"]]
    /\ UNCHANGED <<KEEP_RUNNING, mainVars, q, received>>

\* the producer's attempt: self.service.process(input), a push
ProducerProcess ==
    /\ th["producer"].pc = "process"
    /\ th["producer"].attempt < MaxAttempts \/ Len(q) < QueueCap
    /\ LET f == th["producer"]
           pushed == ArrayQueuePusher_process(q, f.input)
       IN /\ q' = pushed.q
          /\ th' = [th EXCEPT !["producer"] =
                       ThreadAfterProcess(f, RetryOnProcess(pushed.r), pushed.r)]
    /\ UNCHANGED <<KEEP_RUNNING, mainVars, received>>

\* the consumer's poll: self.service.process(()), a pop
ConsumerProcess ==
    /\ th["consumer"].pc = "process"
    /\ th["consumer"].attempt < MaxAttempts \/ q # <<>>
    /\ LET f == th["consumer"]
           popped == ArrayQueuePopper_process(q)
       IN /\ q' = popped.q
          /\ th' = [th EXCEPT !["consumer"] =
                       ThreadAfterProcess(f, PollOnProcess(popped.r), popped.r)]
    /\ UNCHANGED <<KEEP_RUNNING, mainVars, received>>

\* check_keep_running()? inside the thread's idle function
ThreadIdleCheck(t) ==
    /\ th[t].pc = "idle"
    /\ th[t].idlePc \in {"check", "inner"}
    /\ LET f == th[t]
           checked == check_keep_running(KEEP_RUNNING)
           next == IdleAfterCheck(IdleFnOf(t), f.idlePc, f.attempt, 0, checked)
       IN th' = [th EXCEPT ![t] =
                    [f EXCEPT !.idlePc = next,
                              !.idleRet = IF checked.tag = "Err" THEN checked
                                          ELSE IF next = "ret" THEN Ok(0) ELSE NoResult]]
    /\ UNCHANGED <<KEEP_RUNNING, mainVars, q, received>>

\* thread::park_timeout(..) / thread::yield_now(), then Ok(())
ThreadIdleWait(t) ==
    /\ th[t].pc = "idle"
    /\ th[t].idlePc = "wait"
    /\ th' = [th EXCEPT ![t] = [@ EXCEPT !.idlePc = "ret", !.idleRet = Ok(0)]]
    /\ UNCHANGED <<KEEP_RUNNING, mainVars, q, received>>

\* the producer's idle function has returned
ProducerIdleReturned ==
    /\ th["producer"].pc = "idle"
    /\ th["producer"].idlePc = "ret"
    /\ LET f == th["producer"]
           next == PushRetryOnIdle(f.idleRet, f.err, f.input, f.attempt)
       IN th' = [th EXCEPT !["producer"] =
                    [f EXCEPT !.pc = next.pc, !.input = next.input,
                              !.attempt = next.attempt, !.result = next.result,
                              !.idlePc = "none", !.retried = next.pc = "process"]]
    /\ UNCHANGED <<KEEP_RUNNING, mainVars, q, received>>

\* the consumer's idle function has returned
ConsumerIdleReturned ==
    /\ th["consumer"].pc = "idle"
    /\ th["consumer"].idlePc = "ret"
    /\ LET f == th["consumer"]
           next == PollOnIdle(f.idleRet, f.attempt)
       IN th' = [th EXCEPT !["consumer"] =
                    [f EXCEPT !.pc = next.pc, !.attempt = next.attempt,
                              !.result = next.result, !.idlePc = "none",
                              !.retried = next.pc = "process"]]
    /\ UNCHANGED <<KEEP_RUNNING, mainVars, q, received>>

\* `pusher.process(i).unwrap()`: on to the next item, or a panic on Err
ProducerUnwrap ==
    /\ th["producer"].pc = "done"
    /\ th' = [th EXCEPT !["producer"] =
                 IF @.result.tag = "Ok"
                 THEN [@ EXCEPT !.pc = "call", !.i = @ + 1]
                 ELSE [@ EXCEPT !.pc = "panicked"]]
    /\ UNCHANGED <<KEEP_RUNNING, mainVars, q, received>>

\* `assert_eq!(poller.process(()).unwrap(), i)` and the sleep after it: on to
\* the next item, or a panic on Err or on an unexpected value
ConsumerAssert ==
    /\ th["consumer"].pc = "done"
    /\ LET f == th["consumer"]
       IN /\ received' = IF f.result.tag = "Ok" THEN Append(received, f.result.val)
                         ELSE received
          /\ th' = [th EXCEPT !["consumer"] =
                       IF f.result.tag = "Ok" /\ f.result.val = f.i
                       THEN [f EXCEPT !.pc = "call", !.i = @ + 1]
                       ELSE [f EXCEPT !.pc = "panicked"]]
    /\ UNCHANGED <<KEEP_RUNNING, mainVars, q>>

NextQueue ==
    \/ QueueStoreKeepRunning
    \/ \E t \in Threads : ThreadCall(t)
    \/ ProducerProcess
    \/ ConsumerProcess
    \/ \E t \in Threads : ThreadIdleCheck(t)
    \/ \E t \in Threads : ThreadIdleWait(t)
    \/ ProducerIdleReturned
    \/ ConsumerIdleReturned
    \/ ProducerUnwrap
    \/ ConsumerAssert

SpecQueue == Init /\ [][NextQueue]_vars

\* -------------------------------------- MutexService shared by two threads
nonMutexVars == <<KEEP_RUNNING, op, variant, pc, idleVars, loopVars, result, chainVars, rtoVars,
                  idleResults, execVars, queueVars, classVars,
              serverVars,
              stuckVars,
              mutChainVars,
              wrapVars,
              busVars,
              maybeVars,
              wsVars>>

\* a lock that is granted although another thread holds the guard
MutexLockResult_NoExclusion(holder, poisoned) ==
    IF poisoned THEN "poisoned" ELSE "acquired"

\* a lock whose caller recovers the guard of a poisoned mutex and goes on
MutexLockResult_IgnoresPoison(holder, poisoned) ==
    IF holder # "none" THEN "blocked" ELSE "acquired"

\* `self.service.lock().expect("poisoned mutex")`: lock() blocks while
\* another thread holds the guard; on a poisoned mutex it returns Err and
\* expect panics; otherwise the caller holds the guard
MutexLockResult(holder, poisoned) ==
    IF holder # "none" THEN "blocked"
    ELSE IF poisoned THEN "poisoned"
    ELSE "acquired"

\* a thread calls process(input) on its clone of the MutexService
MutexProcessCall(t) ==
    /\ mt[t].pc = "idle"
    /\ mt[t].calls < MaxMutexCalls
    /\ \E i \in MutexInputs :
          mt' = [mt EXCEPT ![t] = [@ EXCEPT !.pc = "lock", !.input = i, !.out = NoResult]]
    /\ UNCHANGED <<nonMutexVars, mutexHolder, mutexPoisoned, unitN, unitCalls, unitSum, serverVars,
                   stuckVars, mutChainVars, wrapVars, busVars, maybeVars, wsVars>>

\* lock().expect(..) returns the guard and the wrapped process is entered,
\* or it panics
MutexLock(t) ==
    /\ mt[t].pc = "lock"
    /\ LET r == MutexLockResult(mutexHolder, mutexPoisoned)
       IN /\ r # "blocked"
          /\ IF r = "acquired"
             THEN /\ mutexHolder' = t
                  /\ unitCalls' = unitCalls + 1
                  /\ mt' = [mt EXCEPT ![t].pc = "load"]
             ELSE /\ mt' = [mt EXCEPT ![t].pc = "panicked"]
                  /\ UNCHANGED <<mutexHolder, unitCalls, serverVars, stuckVars, mutChainVars, wrapVars, busVars,
                   maybeVars, wsVars>>
    /\ UNCHANGED <<nonMutexVars, mutexPoisoned, unitN, unitSum, serverVars, stuckVars, mutChainVars,
                   wrapVars, busVars, maybeVars, wsVars>>

\* AppendService::process, `self.n += input`: the load of n
MutexUnitLoad(t) ==
    /\ mt[t].pc = "load"
    /\ mt' = [mt EXCEPT ![t] = [@ EXCEPT !.pc = "store", !.local = unitN]]
    /\ UNCHANGED <<nonMutexVars, mutexHolder, mutexPoisoned, unitN, unitCalls, unitSum, serverVars,
                   stuckVars, mutChainVars, wrapVars, busVars, maybeVars, wsVars>>

\* AppendService::process, `self.n += input`: the store to n
MutexUnitStore(t) ==
    /\ mt[t].pc = "store"
    /\ unitN' = mt[t].local + mt[t].input
    /\ unitSum' = unitSum + mt[t].input
    /\ mt' = [mt EXCEPT ![t].pc = "ret"]
    /\ UNCHANGED <<nonMutexVars, mutexHolder, mutexPoisoned, unitCalls, serverVars, stuckVars,
                   mutChainVars, wrapVars, busVars, maybeVars, wsVars>>

\* the wrapped process panics: the guard is dropped while the thread
\* unwinds, which poisons the mutex
MutexUnitPanic(t) ==
    /\ mt[t].pc \in {"load", "store", "ret"}
    /\ mt' = [mt EXCEPT ![t].pc = "panicked"]
    /\ mutexHolder' = IF mutexHolder = t THEN "none" ELSE mutexHolder
    /\ mutexPoisoned' = TRUE
    /\ UNCHANGED <<nonMutexVars, unitN, unitCalls, unitSum, serverVars, stuckVars, mutChainVars,
                   wrapVars, busVars, maybeVars, wsVars>>

\* the wrapped process returns Ok(self.n); the guard is dropped at the end
\* of the statement and MutexService::process returns the result
MutexReturn(t) ==
    /\ mt[t].pc = "ret"
    /\ mt' = [mt EXCEPT ![t] = [@ EXCEPT !.pc = "idle", !.calls = @ + 1, !.out = Ok(unitN)]]
    /\ mutexHolder' = IF mutexHolder = t THEN "none" ELSE mutexHolder
    /\ UNCHANGED <<nonMutexVars, mutexPoisoned, unitN, unitCalls, unitSum, serverVars, stuckVars,
                   mutChainVars, wrapVars, busVars, maybeVars, wsVars>>

NextMutex ==
    \/ \E t \in MutexThreads : MutexProcessCall(t)
    \/ \E t \in MutexThreads : MutexLock(t)
    \/ \E t \in MutexThreads : MutexUnitLoad(t)
    \/ \E t \in MutexThreads : MutexUnitStore(t)
    \/ \E t \in MutexThreads : MutexUnitPanic(t)
    \/ \E t \in MutexThreads : MutexReturn(t)

SpecMutex == Init /\ [][NextMutex]_vars

\* ------------------------- ping_pong: the server thread made by spawn_loop
\* std::io::Error of WsServer::process (TcpListener::accept)
IoWouldBlock == [kind |-> "WouldBlock", payload |-> 0]
IoOther == [kind |-> "Other", payload |-> 0]

\* WsServer::process on a non-blocking listener: a connection if one is
\* waiting, else Err(WouldBlock); any other io::Error may come up too
WsServerResults(n) ==
    {UnitErr(IoWouldBlock), UnitErr(IoOther)}
      \cup (IF n < MaxAccepts THEN {UnitOk(n + 1)} ELSE {})

\* WsServer::parse_retry: WouldBlock => Ok(()), _ => Err(ServiceError(err))
WsServer_parse_retry(e) ==
    IF e.kind = "WouldBlock" THEN Ok(0) ELSE Err(ServiceError(e))

\* a retry loop that classifies and retries although its idle function failed
ServerRetryOnIdle_IgnoresIdleErr(idled, e, in, a) ==
    LET p == WsServer_parse_retry(e)
    IN IF p.tag = "Ok"
       THEN [pc |-> "process", input |-> p.val, attempt |-> a + 1, result |-> NoResult]
       ELSE [pc |-> "done", input |-> in, attempt |-> a, result |-> Err(p.err)]

\* RetryService::process over the WsServer, `match (self.idle)(attempt)`
ServerRetryOnIdle(idled, e, in, a) ==
    IF idled.tag = "Ok"
    THEN LET p == WsServer_parse_retry(e)
         IN IF p.tag = "Ok"
            THEN [pc |-> "process", input |-> p.val, attempt |-> a + 1, result |-> NoResult]
            ELSE [pc |-> "done", input |-> in, attempt |-> a, result |-> Err(p.err)]
    ELSE [pc |-> "done", input |-> in, attempt |-> a, result |-> Err(idled.err)]

\* `|err| { println!(..); Err(err) }`: the handler of ping_pong stops the thread
ServerHandlerResult(e) == "Err"

\* sod::thread::spawn_loop(ServiceChain::start(RetryService::new(server,
\* backoff)).next(SessionSpawner).end(), handler): the thread starts
ServerSpawn ==
    /\ op = "none"
    /\ op' = "server"
    /\ pc' = "call"
    /\ UNCHANGED <<KEEP_RUNNING, variant, idleVars, loopVars, result, chainVars, rtoVars,
                   idleResults, execVars, queueVars, classVars, mutexVars, serverVars,
                   stuckVars, mutChainVars, wrapVars, busVars, maybeVars, wsVars>>

\* the loop calls chain.process(()), which enters RetryService::process
ServerChainCall ==
    /\ op = "server"
    /\ pc = "call"
    /\ pc' = "process"
    /\ attempt' = 0
    /\ err' = NoErr
    /\ result' = NoResult
    /\ UNCHANGED <<KEEP_RUNNING, op, variant, idleVars, input, origInput, trace, chainVars,
                   rtoVars, idleResults, execVars, queueVars, classVars, mutexVars, serverVars,
                   stuckVars, mutChainVars, wrapVars, busVars, maybeVars, wsVars>>

\* one attempt: self.service.process(input), the server's accept.  Attempts
\* are followed up to MaxIdleAttempt, and one more once the flag is false.
ServerAccept ==
    /\ op = "server"
    /\ pc = "process"
    /\ attempt < MaxIdleAttempt \/ (~KEEP_RUNNING /\ attempt <= MaxIdleAttempt)
    /\ \E r \in WsServerResults(accepted) :
          LET next == RetryOnProcess(r)
          IN /\ pc' = next.pc
             /\ result' = next.result
             /\ err' = r.e
             /\ accepted' = IF r.tag = "Ok" THEN accepted + 1 ELSE accepted
             /\ IF next.pc = "idle"
                THEN IdleEnter("backoff", 0, attempt)
                ELSE UNCHANGED idleVars
    /\ UNCHANGED <<KEEP_RUNNING, op, variant, input, origInput, attempt, trace, chainVars,
                   rtoVars, idleResults, execVars, queueVars, classVars, mutexVars, stuckVars,
                   mutChainVars, wrapVars, busVars, maybeVars, wsVars>>

\* backoff has returned: return its Err, or classify the error
ServerIdleReturned ==
    /\ op = "server"
    /\ pc = "idle"
    /\ idlePc = "ret"
    /\ LET next == ServerRetryOnIdle(idleRet, err, input, attempt)
       IN /\ pc' = next.pc
          /\ attempt' = next.attempt
          /\ result' = next.result
    /\ idlePc' = "none"
    /\ UNCHANGED <<KEEP_RUNNING, op, variant, idleFn, idleTimeout, idleAttempts, idleReads,
                   idleWaits, idleRet, input, origInput, err, trace, chainVars, rtoVars,
                   idleResults, execVars, queueVars, classVars, mutexVars, serverVars,
                   stuckVars, mutChainVars, wrapVars, busVars, maybeVars, wsVars>>

\* RetryService::process has returned: on Ok the chain runs SessionSpawner,
\* which returns Ok(()), and the loop calls the chain again; on Err the
\* chain returns the error and the loop calls the handler
ServerChainReturn ==
    /\ op = "server"
    /\ pc = "done"
    /\ pc' = IF SpawnLoopOnProcess([tag |-> result.tag]) = "handler" THEN "handler" ELSE "call"
    /\ IdleReset
    /\ UNCHANGED <<KEEP_RUNNING, op, variant, loopVars, result, chainVars, rtoVars,
                   idleResults, execVars, queueVars, classVars, mutexVars, serverVars,
                   stuckVars, mutChainVars, wrapVars, busVars, maybeVars, wsVars>>

\* error_handler(err); the thread returns from its closure on Err
ServerHandler ==
    /\ op = "server"
    /\ pc = "handler"
    /\ pc' = IF SpawnLoopOnHandler(ServerHandlerResult(result.err)) = "exited"
             THEN "exited" ELSE "call"
    /\ UNCHANGED <<KEEP_RUNNING, op, variant, idleVars, loopVars, result, chainVars, rtoVars,
                   idleResults, execVars, queueVars, classVars, mutexVars, serverVars,
                   stuckVars, mutChainVars, wrapVars, busVars, maybeVars, wsVars>>

\* handle.join() returns in the main thread
ServerJoin ==
    /\ op = "server"
    /\ pc = "exited"
    /\ pc' = "joined"
    /\ UNCHANGED <<KEEP_RUNNING, op, variant, idleVars, loopVars, result, chainVars, rtoVars,
                   idleResults, execVars, queueVars, classVars, mutexVars, serverVars,
                   stuckVars, mutChainVars, wrapVars, busVars, maybeVars, wsVars>>

\* the main thread: sod::idle::KEEP_RUNNING.store(false, Ordering::Release)
ServerStop ==
    /\ KEEP_RUNNING
    /\ KEEP_RUNNING' = FALSE
    /\ UNCHANGED <<op, variant, pc, idleVars, loopVars, result, chainVars, extVars>>

\* the steps of the server thread and of the join that waits for it
ServerThread ==
    \/ ServerSpawn
    \/ ServerChainCall
    \/ ServerAccept
    \/ (op = "server" /\ IdleCheckKeepRunning)
    \/ (op = "server" /\ IdleWait)
    \/ ServerIdleReturned
    \/ ServerChainReturn
    \/ ServerHandler
    \/ ServerJoin

NextServer == ServerStop \/ ServerThread

\* the scheduler runs a thread that can take a step, and a parked thread
\* wakes up when its timeout is over
FairSpecServer == Init /\ [][NextServer]_vars /\ WF_vars(ServerThread)

\* ----------------------------------------- RetryService over a WsSession
\* WsSessionEvent; the messages are numbered
WsSessionEvents ==
    {[kind |-> "ReadMessage", msg |-> 0], [kind |-> "Flush", msg |-> 0]}
      \cup {[kind |-> "WriteMessage", msg |-> x] : x \in Inputs}

\* WsSession::process on a non-blocking stream, attempt a: ReadMessage gives
\* Ok(Some(message)) (val is 1 + the message's number) and the others
\* Ok(None) (val 0); read, send and flush fail with Io(WouldBlock) while the
\* socket is not ready, send also with WriteBufferFull(message), or with
\* another io::Error.  At most MaxAttempts retryable failures are followed.
WsSessionResults(ev, a) ==
    (IF ev.kind = "ReadMessage" THEN {UnitOk(1 + x) : x \in Inputs} ELSE {UnitOk(0)})
      \cup {UnitErr(IoOther)}
      \cup (IF a < MaxAttempts THEN {UnitErr(IoWouldBlock)} ELSE {})
      \cup (IF a < MaxAttempts /\ ev.kind = "WriteMessage"
            THEN {UnitErr([kind |-> "WriteBufferFull", payload |-> ev.msg])} ELSE {})

\* WsSession::parse_retry: WriteBufferFull(message) => Ok(WriteMessage(message)),
\* Io(WouldBlock) => Ok(ReadMessage), any other error => Err(ServiceError(err));
\* val is the event to retry with
WsSession_parse_retry(e) ==
    IF e.kind = "WriteBufferFull"
    THEN [tag |-> "Ok", val |-> [kind |-> "WriteMessage", msg |-> e.payload], err |-> NoRetryError]
    ELSE IF e.kind = "WouldBlock"
    THEN [tag |-> "Ok", val |-> [kind |-> "ReadMessage", msg |-> 0], err |-> NoRetryError]
    ELSE Err(ServiceError(e))

\* impl MutService for RetryService over the WsSession, `match (self.idle)(attempt)`
WsRetryOnIdle(idled, e, in, a) ==
    IF idled.tag = "Ok"
    THEN LET p == WsSession_parse_retry(e)
         IN IF p.tag = "Ok"
            THEN [pc |-> "process", input |-> p.val, attempt |-> a + 1,
                  result |-> NoResult, parsed |-> TRUE]
            ELSE [pc |-> "done", input |-> in, attempt |-> a,
                  result |-> Err(p.err), parsed |-> TRUE]
    ELSE [pc |-> "done", input |-> in, attempt |-> a,
          result |-> Err(idled.err), parsed |-> FALSE]

\* the caller invokes RetryService::new(session, idle).process(event); two
\* of the idle strategies are followed
WsCall ==
    /\ op = "none"
    /\ op' = "ws"
    /\ pc' = "process"
    /\ variant' = "MutService"
    /\ \E fn \in {"yielding", "park_one_micro"} : idleFn' = fn
    /\ idleTimeout' = 0
    /\ \E ev \in WsSessionEvents : wsEvent' = ev /\ wsOrig' = ev
    /\ attempt' = 0
    /\ err' = NoErr
    /\ trace' = <<>>
    /\ result' = NoResult
    /\ idleResults' = <<>>
    /\ UNCHANGED <<KEEP_RUNNING, idlePc, idleAttempts, idleReads, idleWaits, idleRet, input, origInput, chainVars, rtoVars, execVars, queueVars, classVars,
                   mutexVars, serverVars, stuckVars, mutChainVars, wrapVars, busVars,
                   maybeVars>>

\* one attempt: self.service.process(input); on Err the idle function is entered
WsProcess ==
    /\ op = "ws"
    /\ pc = "process"
    /\ \E r \in WsSessionResults(wsEvent, attempt) :
          LET next == MutRetryOnProcess(r)
          IN /\ pc' = next.pc
             /\ result' = next.result
             /\ err' = r.e
             /\ IF next.pc = "idle"
                THEN /\ trace' = trace \o <<EvProcess(wsEvent, r), EvIdle(attempt)>>
                     /\ IdleEnter(idleFn, idleTimeout, attempt)
                ELSE /\ trace' = Append(trace, EvProcess(wsEvent, r))
                     /\ UNCHANGED idleVars
    /\ UNCHANGED <<KEEP_RUNNING, op, variant, input, origInput, attempt, idleResults, chainVars, rtoVars, execVars, queueVars, classVars,
                   mutexVars, serverVars, stuckVars, mutChainVars, wrapVars, busVars,
                   maybeVars, wsVars>>

\* the idle function has returned: return its Err, or classify the error
WsIdleReturned ==
    /\ op = "ws"
    /\ pc = "idle"
    /\ idlePc = "ret"
    /\ LET next == WsRetryOnIdle(idleRet, err, wsEvent, attempt)
       IN /\ pc' = next.pc
          /\ wsEvent' = next.input
          /\ attempt' = next.attempt
          /\ result' = next.result
          /\ trace' = IF next.parsed THEN Append(trace, EvParse(err)) ELSE trace
    /\ idlePc' = "none"
    /\ idleResults' = Append(idleResults, idleRet)
    /\ UNCHANGED <<KEEP_RUNNING, op, variant, idleFn, idleTimeout, idleAttempts, idleReads, idleWaits, idleRet,
                   input, origInput, err, chainVars, rtoVars, execVars, queueVars, classVars,
                   mutexVars, serverVars, stuckVars, mutChainVars, wrapVars, busVars,
                   maybeVars, wsOrig>>

\* process has returned to the caller
WsReturn ==
    /\ op = "ws"
    /\ pc = "done"
    /\ op' = "none"
    /\ pc' = "none"
    /\ variant' = "Service"
    /\ IdleReset
    /\ wsEvent' = [kind |-> "ReadMessage", msg |-> 0]
    /\ wsOrig' = [kind |-> "ReadMessage", msg |-> 0]
    /\ attempt' = 0
    /\ err' = NoErr
    /\ trace' = <<>>
    /\ result' = NoResult
    /\ idleResults' = <<>>
    /\ UNCHANGED <<KEEP_RUNNING, input, origInput, chainVars, rtoVars, execVars, queueVars, classVars,
                   mutexVars, serverVars, stuckVars, mutChainVars, wrapVars, busVars,
                   maybeVars>>

Next ==
    \/ StoreKeepRunning
    \/ IdleCheckKeepRunning
    \/ IdleWait
    \/ IdleCustom
    \/ IdleCall
    \/ IdleReturn
    \/ RetryCall
    \/ RetryProcess
    \/ RetryIdleReturned
    \/ LoopReturn
    \/ PollCall
    \/ PollProcess
    \/ PollIdleReturned
    \/ ChainCall
    \/ ChainNoOp
    \/ ChainService
    \/ ChainPrevErr
    \/ ChainReturn
    \/ RtoCall
    \/ RtoProcess
    \/ RtoReturn
    \/ SpawnLoop
    \/ SpawnLoopProcess
    \/ SpawnLoopHandler
    \/ SpawnLoopExit
    \/ AsyncAwaitPending
    \/ AsyncWake
    \/ OtherTaskStep
    \/ ParseRetryCall
    \/ ParseRetryReturn
    \/ UnitHangs
    \/ UnitStuckStep
    \/ ForkCall
    \/ ForkFirst
    \/ ForkSecond
    \/ ForkReturn
    \/ MutChainStart
    \/ MutChainCall
    \/ MutChainDrop
    \/ WrapCall
    \/ WrapAwaitPending
    \/ WrapInner
    \/ WrapReturn
    \/ BusCreate
    \/ BusAddReceiver
    \/ BusBroadcast
    \/ BusReceive
    \/ BusDrop
    \/ MaybeCall
    \/ MaybeMatch
    \/ MaybeInner
    \/ MaybeReturn
    \/ WsCall
    \/ WsProcess
    \/ WsIdleReturned
    \/ WsReturn

Spec == Init /\ [][Next]_vars

\* ------------------------------------------------------------------ claims
\* number of calls of the given kind in the trace of the current process call
Calls(c) == Cardinality({k \in DOMAIN trace : trace[k].call = c})
\* number of attempts of the current process call whose unit result had the given tag
Outcomes(t) == Cardinality({k \in DOMAIN trace : trace[k].call = "process" /\ trace[k].out = t})
LastCall == trace[Len(trace)]

\* C1: in a chain invocation, once a link has returned Err (all links before
\* it having returned Ok) no later link is invoked: the failed link is the
\* only one that failed and the last one invoked.
C1_ChainShortCircuit ==
    (op = "chain" /\ chainFailed # <<>>) =>
        /\ Len(chainFailed) = 1
        /\ chainInvoked[Len(chainInvoked)] = chainFailed[1]
        /\ \A k \in DOMAIN chainInvoked : chainInvoked[k] <= chainFailed[1]
        /\ pc \in {"prev_err", "done"}

C1_Witness ==
    /\ op = "chain" /\ pc = "done" /\ chainLen = 3
    /\ chainFailed = <<1>> /\ chainInvoked = <<0, 1>>

\* C2: when an attempt of RetryService.process has failed and the idle
\* function returns Err(Interrupted), the call returns Err(Interrupted): the
\* idle call is the last call made (no parse_retry for that error, no further
\* attempt), whatever the failed attempt's error was.
C2_IdleInterruptWins ==
    (op = "retry" /\ pc = "done" /\ idleRet = Err(Interrupted)) =>
        /\ result = Err(Interrupted)
        /\ LastCall = EvIdle(attempt)
        /\ Calls("parse_retry") = attempt
        /\ Calls("process") = attempt + 1

C2_Witness ==
    /\ op = "retry" /\ pc = "done" /\ idleRet = Err(Interrupted)
    /\ err.kind = "Terminal" /\ result = Err(Interrupted)
    /\ attempt = 1

\* C3: when parse_retry is consulted (the attempt failed, the idle function
\* returned Ok) and classifies the error as terminal, the call returns
\* Err(ServiceError(e)) with e the error of the failed attempt, and
\* parse_retry is the last call made: the unit is not invoked again.
C3_TerminalErrorReturned ==
    op = "retry" =>
        \A k \in DOMAIN trace :
            (trace[k].call = "parse_retry" /\ trace[k].e.kind = "Terminal") =>
                /\ k = Len(trace)
                /\ pc = "done"
                /\ result = Err(ServiceError(trace[k].e))
                /\ trace[k - 2].call = "process"
                /\ trace[k - 2].e = trace[k].e

C3_Witness ==
    /\ op = "retry" /\ pc = "done" /\ attempt = 2
    /\ LastCall = EvParse([kind |-> "Terminal", payload |-> 1])
    /\ result = Err(ServiceError([kind |-> "Terminal", payload |-> 1]))

\* C4: when parse_retry returns Ok(new_input), the next attempt invokes the
\* unit with exactly new_input, and the call returns only when an attempt
\* returned Ok, the classifier returned Err or the idle function returned Err.
C4_RetryWithNewInput ==
    op = "retry" =>
        /\ \A k \in DOMAIN trace :
              (trace[k].call = "parse_retry" /\ trace[k].e.kind = "Retry") =>
                  IF k < Len(trace)
                  THEN trace[k + 1].call = "process" /\ trace[k + 1].arg = trace[k].e.payload
                  ELSE pc = "process" /\ input = trace[k].e.payload
        /\ pc = "done" =>
              \/ LastCall.call = "process" /\ LastCall.out = "Ok"
              \/ LastCall.call = "parse_retry" /\ LastCall.e.kind # "Retry"
              \/ LastCall.call = "idle" /\ idleRet.tag = "Err"

C4_Witness ==
    /\ op = "retry" /\ pc = "done" /\ origInput = 0 /\ Len(trace) = 4
    /\ trace[3] = EvParse([kind |-> "Retry", payload |-> 1])
    /\ trace[4].call = "process" /\ trace[4].arg = 1 /\ trace[4].out = "Ok"

\* C5: if the first attempt returns Ok(v), RetryService.process has invoked
\* the unit exactly once with the caller's input, has called neither the idle
\* function nor parse_retry, and returns Ok(v).
C5_SuccessOnFirstAttempt ==
    (op = "retry" /\ trace # <<>> /\ trace[1].out = "Ok") =>
        /\ pc = "done"
        /\ trace = <<EvProcess(origInput, UnitOk(trace[1].val))>>
        /\ result = Ok(trace[1].val)
        /\ idlePc = "none" /\ idleRet = NoResult
        /\ attempt = 0

C5_Witness ==
    /\ op = "retry" /\ pc = "done" /\ origInput = 1
    /\ trace = <<EvProcess(1, UnitOk(1))>> /\ result = Ok(1)

\* C6: a PollService.process call that returns Ok returns the v of the
\* unit's Ok(Some(v)); with N the number of Ok(None) results before it, the
\* unit was invoked N+1 times and the idle function N times (with attempt
\* numbers 0..N-1 in turn).
C6_PollCounts ==
    (op = "poll" /\ pc = "done" /\ result.tag = "Ok") =>
        /\ LastCall.call = "process" /\ LastCall.out = "Some"
        /\ result = Ok(LastCall.val)
        /\ Calls("process") = Outcomes("NoneYet") + 1
        /\ Calls("idle") = Outcomes("NoneYet")
        /\ Len(trace) = 2 * Outcomes("NoneYet") + 1
        /\ \A k \in 1..Outcomes("NoneYet") :
              /\ trace[2 * k - 1].out = "NoneYet"
              /\ trace[2 * k] = EvIdle(k - 1)

C6_Witness ==
    /\ op = "poll" /\ pc = "done" /\ result = Ok(1)
    /\ Outcomes("NoneYet") = MaxAttempts
    /\ Calls("idle") = MaxAttempts

\* C7: when the polled unit returns Err(e), PollService.process returns
\* Err(ServiceError(e)) at once: that attempt is the last call made (no idle
\* call for it, no further poll).
C7_PollErrorImmediate ==
    op = "poll" =>
        \A k \in DOMAIN trace :
            (trace[k].call = "process" /\ trace[k].out = "Err") =>
                /\ k = Len(trace)
                /\ pc = "done"
                /\ result = Err(ServiceError(trace[k].e))
                /\ Calls("idle") = attempt
                /\ Calls("process") = attempt + 1

C7_Witness ==
    /\ op = "poll" /\ pc = "done" /\ attempt = 1
    /\ result = Err(ServiceError([kind |-> "Terminal", payload |-> 1]))

\* C8: a stock idle strategy that finds KEEP_RUNNING false when it loads it
\* returns Err(Interrupted), for every strategy and every attempt number.
C8_InterruptedWhenFlagFalse ==
    (idlePc = "ret" /\ idleFn \in StockIdle /\ \E k \in DOMAIN idleReads : ~idleReads[k]) =>
        idleRet = Err(Interrupted)

C8_Witness ==
    /\ op = "idle" /\ idlePc = "ret" /\ idleFn = "sleep_one_sec" /\ idleAttempts = MaxIdleAttempt
    /\ idleReads = <<FALSE>> /\ idleRet = Err(Interrupted)

\* C9: a stock idle strategy waits (yield, park, sleep) only after it has
\* loaded KEEP_RUNNING in that call and found it true every time; once a load
\* finds it false the call is over without any wait.
C9_CheckBeforeWait ==
    idleFn \in StockIdle =>
        /\ (idlePc = "wait" \/ idleWaits # <<>>) =>
              /\ idleReads # <<>>
              /\ \A k \in DOMAIN idleReads : idleReads[k]
        /\ (\E k \in DOMAIN idleReads : ~idleReads[k]) =>
              /\ idleWaits = <<>>
              /\ idlePc \in {"ret", "none"}
        /\ idlePc \in {"inner", "wait", "ret"} => idleReads # <<>>

C9_Witness ==
    /\ idlePc = "ret" /\ idleFn = "park_one_milli"
    /\ idleReads = <<TRUE, FALSE>> /\ idleWaits = <<>>

\* C10: with KEEP_RUNNING true, backoff(a) returns Ok(()) after no wait for
\* a < 10, one yield for 10 <= a < 20, one park of 1, 2, 4, ... 512
\* microseconds for a = 20 .. 29, and one park of 1024 microseconds for a >= 30.
C10_ParkMicros == <<1, 2, 4, 8, 16, 32, 64, 128, 256, 512>>

C10_BackoffSchedule ==
    (idlePc = "ret" /\ idleFn = "backoff" /\ idleReads = <<TRUE>>) =>
        /\ idleRet = Ok(0)
        /\ idleAttempts < 10 => idleWaits = <<>>
        /\ (10 <= idleAttempts /\ idleAttempts < 20) => idleWaits = <<Yield>>
        /\ (20 <= idleAttempts /\ idleAttempts < 30) =>
              idleWaits = <<Park(C10_ParkMicros[idleAttempts - 19])>>
        /\ idleAttempts >= 30 => idleWaits = <<Park(1024)>>

C10_Witness ==
    /\ op = "idle" /\ idlePc = "ret" /\ idleFn = "backoff" /\ idleAttempts = 30
    /\ idleReads = <<TRUE>> /\ idleWaits = <<Park(1024)>> /\ idleRet = Ok(0)

\* C14: a chain invocation returns either the Ok output of its last link, or
\* one Err(ServiceChainError) whose cause is the error returned by the one
\* link that failed (the last link invoked); never both, never a value of
\* another link.
C14_ChainErrorRecordsOrigin ==
    (op = "chain" /\ pc = "done") =>
        LET last == chainIO[Len(chainIO)]
        IN IF chainFailed = <<>>
           THEN /\ last.link = chainLen /\ last.out = "Ok"
                /\ result = Ok(last.val)
                /\ chainLayers = 0
           ELSE /\ Len(chainFailed) = 1
                /\ last.link = chainFailed[1] /\ last.out = "Err"
                /\ last.e = LinkError(chainFailed[1])
                /\ result = Err(ServiceChainError(last.e))
                /\ chainLayers >= 1
                /\ \A k \in 1..(Len(chainIO) - 1) : chainIO[k].out = "Ok"

C14_Witness ==
    /\ op = "chain" /\ pc = "done" /\ chainLen = 3 /\ chainFailed = <<2>>
    /\ result = Err(ServiceChainError(LinkError(2)))

\* C15: in a chain invocation the NoOpService head and then links 1, 2, ...
\* are invoked in that order, each at most once; every link is invoked only
\* after the one before it returned Ok, with exactly that output as its input.
C15_ChainOrder ==
    op = "chain" =>
        /\ Len(chainIO) = Len(chainInvoked)
        /\ Len(chainIO) <= chainLen + 1
        /\ \A k \in DOMAIN chainIO :
              /\ chainIO[k].link = k - 1
              /\ chainInvoked[k] = k - 1
              /\ k > 1 => /\ chainIO[k - 1].out = "Ok"
                          /\ chainIO[k].in = chainIO[k - 1].val
        /\ (pc = "service" /\ chainIO # <<>>) =>
              /\ chainLink = Len(chainIO)
              /\ chainValue = chainIO[Len(chainIO)].val

C15_Witness ==
    /\ op = "chain" /\ pc = "done" /\ chainLen = 3 /\ chainInvoked = <<0, 1, 2, 3>>
    /\ chainIO[1].in = 1 /\ chainIO[3].in = 2 /\ chainIO[4].in = 4 /\ chainIO[4].val = 8

\* C16: when every link succeeds the chain returns the composition of its
\* links on the input: with links adding 1, 2, 4, ... the result for input x
\* and n links is Ok(x + 1), Ok(x + 3), Ok(x + 7), ... (107 for 100 and three
\* links); the NoOpService head returns its input unchanged.
C16_Sums == <<1, 3, 7, 15, 31, 63>>

C16_ChainComposition ==
    (op = "chain" /\ chainIO # <<>>) =>
        /\ chainIO[1].link = 0 /\ chainIO[1].out = "Ok" /\ chainIO[1].val = chainIO[1].in
        /\ (pc = "done" /\ chainFailed = <<>>) =>
              result = Ok(chainIO[1].in + C16_Sums[chainLen])

C16_Witness ==
    /\ op = "chain" /\ pc = "done" /\ chainLen = 3
    /\ chainIO[1].in = 100 /\ result = Ok(107)

\* C17: an Interrupted outcome, from the idle function or from parse_retry,
\* is what RetryService, PollService and RetryToOptionService return: the
\* call is over with Err(Interrupted), never an Ok, an Ok(None) or a retry.
C17_InterruptedPropagates ==
    /\ (op \in {"retry", "poll"} /\ pc = "done" /\ LastCall.call = "idle"
            /\ idleRet = Err(Interrupted)) =>
          result = Err(Interrupted)
    /\ (op \in {"retry", "poll"} /\ pc = "idle" /\ idlePc = "ret") => LastCall.call = "idle"
    /\ op \in {"retry", "rto"} =>
          \A k \in DOMAIN trace :
              (trace[k].call = "parse_retry" /\ trace[k].e.kind = "Intr") =>
                  /\ k = Len(trace)
                  /\ pc = "done"
                  /\ result = Err(Interrupted)

C17_Witness ==
    /\ op = "rto" /\ pc = "done" /\ rtoUnit = "double"
    /\ LastCall = EvParse([kind |-> "Intr", payload |-> 0])
    /\ result = Err(Interrupted)

\* C20: RetryToOptionService over an MpscTryReceiver returns Ok(Some(v)) when
\* try_recv returned Ok(v), Ok(None) when it failed with Empty, and
\* Err(ServiceError(Disconnected)) when it failed with Disconnected; Empty is
\* never returned as an Err.
C20_RetryToOption ==
    (op = "rto" /\ pc = "done" /\ rtoUnit = "MpscTryReceiver") =>
        /\ trace[1].call = "process"
        /\ trace[1].out = "Ok" => result = OkSome(trace[1].val)
        /\ (trace[1].out = "Err" /\ trace[1].e = TryRecvEmpty) =>
              result = OkNone /\ chan = <<>> /\ chanSenders
        /\ (trace[1].out = "Err" /\ trace[1].e = TryRecvDisconnected) =>
              result = Err(ServiceError(TryRecvDisconnected)) /\ chan = <<>> /\ ~chanSenders
        /\ result.tag = "Err" => result.err.e # TryRecvEmpty
        /\ Calls("process") = 1

C20_Witness ==
    /\ op = "rto" /\ pc = "done" /\ rtoUnit = "MpscTryReceiver"
    /\ trace = <<EvProcess(0, UnitErr(TryRecvEmpty)), EvParse(TryRecvEmpty)>>
    /\ result = OkNone

\* C12: the spawned loop calls process(()) again and again; the handler is
\* called once for every Err of process, with that error, and never for an
\* Ok; after a handler Ok the loop goes on to the next process call; the
\* thread is over exactly when a handler call has returned Err, which is then
\* the last call of the thread.
C12_SpawnLoop ==
    op = "loop" =>
        /\ \A k \in DOMAIN trace :
              /\ trace[k].call \in {"process", "error_handler"}
              /\ trace[k].call = "process" => trace[k].arg = 0
              /\ (trace[k].call = "process" /\ trace[k].out = "Err") =>
                    IF k = Len(trace) THEN pc = "handler"
                    ELSE /\ trace[k + 1].call = "error_handler"
                         /\ trace[k + 1].e = trace[k].e
              /\ (trace[k].call = "process" /\ trace[k].out = "Ok") =>
                    IF k = Len(trace) THEN pc = "process"
                    ELSE trace[k + 1].call = "process"
              /\ trace[k].call = "error_handler" =>
                    /\ k > 1
                    /\ trace[k - 1].call = "process"
                    /\ trace[k - 1].out = "Err"
              /\ (trace[k].call = "error_handler" /\ trace[k].out = "Ok") =>
                    IF k = Len(trace) THEN pc = "process"
                    ELSE trace[k + 1].call = "process"
              /\ (trace[k].call = "error_handler" /\ trace[k].out = "Err") =>
                    k = Len(trace) /\ pc = "exited"
        /\ Calls("error_handler") + (IF pc = "handler" THEN 1 ELSE 0) = Outcomes("Err")
        /\ pc = "exited" <=>
              (trace # <<>> /\ LastCall.call = "error_handler" /\ LastCall.out = "Err")
        /\ trace = <<>> => pc = "process"

C12_Witness ==
    /\ op = "loop" /\ pc = "exited"
    /\ Len(trace) = 5
    /\ trace[1].call = "process" /\ trace[1].out = "Ok"
    /\ trace[2].call = "process" /\ trace[2].out = "Err"
    /\ trace[3].call = "error_handler" /\ trace[3].out = "Ok"
    /\ trace[4].call = "process" /\ trace[4].out = "Err"
    /\ trace[5].call = "error_handler" /\ trace[5].out = "Err"

\* C18: whichever of the three traits RetryService is called through, it
\* makes the calls and returns the result that the Service implementation
\* makes and returns for the same unit, classifier and idle results.  Run(k,
\* in, a) replays the Service implementation against the results recorded so
\* far, from call k of the history with the given input and attempt number.
RECURSIVE C18_Run(_, _, _)
C18_Run(k, in, a) ==
    IF k > Len(trace)
    THEN [ok |-> TRUE, pc |-> "process", input |-> in, attempt |-> a, result |-> NoResult]
    ELSE LET ev == trace[k]
             r == [tag |-> ev.out, val |-> ev.val, e |-> ev.e]
             next == RetryOnProcess(r)
         IN IF ev.call # "process" \/ ev.arg # in
            THEN [ok |-> FALSE, pc |-> "", input |-> in, attempt |-> a, result |-> NoResult]
            ELSE IF next.pc = "done"
            THEN [ok |-> k = Len(trace), pc |-> "done", input |-> in, attempt |-> a,
                  result |-> next.result]
            ELSE IF k + 1 > Len(trace) \/ trace[k + 1] # EvIdle(a)
            THEN [ok |-> FALSE, pc |-> "", input |-> in, attempt |-> a, result |-> NoResult]
            ELSE IF Len(idleResults) <= a
            THEN [ok |-> k + 1 = Len(trace), pc |-> "idle", input |-> in, attempt |-> a,
                  result |-> NoResult]
            ELSE LET after == RetryOnIdle(idleResults[a + 1], ev.e, in, a)
                     j == IF after.parsed THEN k + 3 ELSE k + 2
                 IN IF after.parsed /\ (k + 2 > Len(trace) \/ trace[k + 2] # EvParse(ev.e))
                    THEN [ok |-> FALSE, pc |-> "", input |-> in, attempt |-> a,
                          result |-> NoResult]
                    ELSE IF after.pc = "done"
                    THEN [ok |-> j = Len(trace) + 1, pc |-> "done", input |-> after.input,
                          attempt |-> after.attempt, result |-> after.result]
                    ELSE C18_Run(j, after.input, after.attempt)

C18_VariantsAgree ==
    op = "retry" =>
        LET ref == C18_Run(1, origInput, 0)
        IN /\ ref.ok
           /\ ref.pc = pc
           /\ ref.input = input
           /\ ref.attempt = attempt
           /\ ref.result = result

C18_Witness ==
    /\ op = "retry" /\ variant = "AsyncService" /\ pc = "done"
    /\ attempt = 1
    /\ Len(idleResults) = 2
    /\ idleResults[2].tag = "Ok"
    /\ result.tag = "Err" /\ result.err.re = "ServiceError"

\* C19 (as claimed): while an asynchronous retry or poll loop is in the wait
\* of its idle function, the executor worker is not held by the loop, so
\* another task of that worker can take a step.
C19_IdleWaitIsCooperative ==
    (op \in {"retry", "poll"} /\ variant = "AsyncService" /\ pc = "idle" /\ idlePc = "wait"
         /\ otherProgress < MaxOtherSteps) =>
        (worker = "free" /\ ENABLED OtherTaskStep)

\* C11: while KEEP_RUNNING is false since its last store, a retry or poll
\* loop of either thread has started at most one attempt of its unit in the
\* current process call; an idle invocation entered after that store returns
\* Err(Interrupted), and the process call then returns Err(Interrupted)
\* without another attempt.
C11_InterruptBounded ==
    \A t \in Threads :
        /\ ~KEEP_RUNNING => th[t].since <= 1
        /\ (th[t].idleFalse /\ th[t].idlePc = "ret") => th[t].idleRet = Err(Interrupted)
        /\ th[t].idleFalse => th[t].pc \in {"idle", "done", "panicked"}
        /\ (th[t].idleFalse /\ th[t].pc \in {"done", "panicked"}) =>
              th[t].result = Err(Interrupted)

C11_Witness ==
    /\ ~KEEP_RUNNING
    /\ th["producer"].pc = "done"
    /\ th["producer"].since = 1
    /\ th["producer"].attempt = 1
    /\ th["producer"].idleFalse
    /\ th["producer"].result = Err(Interrupted)
    /\ th["consumer"].pc = "done"
    /\ th["consumer"].idleFalse
    /\ th["consumer"].result = Err(Interrupted)

\* C13: under every interleaving the queue never holds more than its
\* capacity, the values received followed by the values waiting are exactly
\* the values pushed so far, 0, 1, 2, ... in order (nothing lost, duplicated
\* or reordered), the consumer's assertion never fails, and a consumer that
\* has finished has received 0 .. NumItems-1.
C13_Pushed ==
    th["producer"].i
      + (IF th["producer"].pc \in {"done", "panicked"} /\ th["producer"].result.tag = "Ok"
         THEN 1 ELSE 0)

C13_Taken ==
    IF th["consumer"].pc = "done" /\ th["consumer"].result.tag = "Ok"
    THEN Append(received, th["consumer"].result.val) ELSE received

C13_QueueDelivery ==
    /\ Len(q) <= QueueCap
    /\ C13_Taken \o q = [k \in 1..C13_Pushed |-> k - 1]
    /\ C13_Pushed <= NumItems
    /\ th["consumer"].pc = "panicked" => th["consumer"].result = Err(Interrupted)
    /\ th["producer"].pc = "panicked" => th["producer"].result = Err(Interrupted)
    /\ th["consumer"].pc = "finished" =>
          /\ received = [k \in 1..NumItems |-> k - 1]
          /\ q = <<>>
    /\ th["producer"].pc = "finished" => C13_Pushed = NumItems

C13_Witness ==
    /\ th["consumer"].pc = "finished"
    /\ th["producer"].pc = "finished"
    /\ th["producer"].retried
    /\ received = [k \in 1..NumItems |-> k - 1]
    /\ KEEP_RUNNING

\* C21: the classifiers of MpscTryReceiver, MpscSyncTrySender and
\* BusTryReceiver answer retry only for Empty and Full, for Full with the
\* very value that was not sent, and answer Err(ServiceError(..)) for
\* Disconnected, never a retry.
C21_ChannelClassifiers ==
    op = "parse" =>
        /\ err.kind = "Empty" => result = Ok(0)
        /\ err.kind = "Full" => result = Ok(err.payload)
        /\ err.kind = "Disconnected" => result = Err(ServiceError(err))
        /\ result.tag = "Ok" => err.kind \in {"Empty", "Full"}
        /\ result.tag \in {"Ok", "Err"}

C21_Witness ==
    /\ op = "parse"
    /\ retryable = "MpscSyncTrySender"
    /\ err = TrySendDisconnected(1)
    /\ result = Err(ServiceError(TrySendDisconnected(1)))

\* C22: at most one thread is inside the wrapped unit's process at a time,
\* and it is the thread holding the guard; the unit's state is the sum of
\* all inputs added so far (no execution overwrote another's update), and a
\* call returns the state its own execution left.
C22_InUnit == {t \in MutexThreads : mt[t].pc \in {"load", "store", "ret"}}

C22_MutexSerializes ==
    /\ Cardinality(C22_InUnit) <= 1
    /\ \A t \in C22_InUnit : mutexHolder = t
    /\ mutexHolder # "none" => mutexHolder \in C22_InUnit
    /\ unitN = unitSum
    /\ \A t \in MutexThreads :
          /\ mt[t].pc = "store" => mt[t].local = unitN
          /\ mt[t].out.tag = "Ok" => mt[t].out.val <= unitN

C22_Witness ==
    /\ mt["t1"].pc = "store"
    /\ mt["t2"].pc = "lock"
    /\ mt["t2"].calls = 1
    /\ unitN = 2
    /\ unitCalls = 2

\* C23: once the mutex is poisoned it stays poisoned, the wrapped unit is
\* never invoked again and no process call returns a result: every later
\* call ends in the panic of expect.
C23_PoisonedPanics ==
    [][mutexPoisoned =>
          /\ mutexPoisoned'
          /\ unitCalls' = unitCalls
          /\ \A t \in MutexThreads :
                /\ mt'[t].calls = mt[t].calls
                /\ mt'[t].pc \notin {"load", "store", "ret"}
                /\ mt[t].pc = "lock" => mt'[t].pc \in {"lock", "panicked"}]_vars

C23_Witness ==
    /\ mutexPoisoned
    /\ mt["t1"].pc = "panicked"
    /\ mt["t2"].pc = "panicked"
    /\ mt["t2"].calls = 1
    /\ unitCalls = 2

\* C24: once KEEP_RUNNING has been set to false, the server thread of
\* spawn_loop (a chain headed by RetryService(server, backoff), a handler
\* that returns Err) exits and the join of its handle completes.
C24_LoopExitsAfterStop == (~KEEP_RUNNING) ~> (op = "server" /\ pc = "joined")

C24_Witness ==
    /\ op = "server" /\ pc = "joined"
    /\ ~KEEP_RUNNING
    /\ attempt = 25
    /\ accepted = 1
    /\ result = Err(Interrupted)

\* C25: a stock idle strategy whose loads of KEEP_RUNNING all gave true
\* returns Ok(()), whatever the attempt number; so a RetryService call whose
\* attempts all failed with a retryable error, or a PollService call whose
\* polls all returned Ok(None), has returned only if its last idle call
\* loaded false, and then with Err(Interrupted): no attempt count ends it.
C25_AllReadsTrue == \A k \in DOMAIN idleReads : idleReads[k]

C25_OnlyRetryable ==
    \A k \in DOMAIN trace :
        trace[k].call = "process" =>
            IF op = "retry" THEN trace[k].out = "Err" /\ trace[k].e.kind = "Retry"
            ELSE trace[k].out = "NoneYet"

C25_NoBuiltInCap ==
    /\ (idleFn \in StockIdle /\ idlePc = "ret" /\ C25_AllReadsTrue) => idleRet = Ok(0)
    /\ (op \in {"retry", "poll"} /\ idleFn \in StockIdle /\ pc = "done" /\ C25_OnlyRetryable) =>
          /\ ~C25_AllReadsTrue
          /\ result = Err(Interrupted)
          /\ LastCall.call = "idle"

C25_Witness ==
    /\ op = "retry" /\ idleFn = "backoff"
    /\ KEEP_RUNNING
    /\ pc = "process"
    /\ attempt = MaxAttempts
    /\ Outcomes("Err") = MaxAttempts
    /\ C25_OnlyRetryable
    /\ idleRet = Ok(0)

\* C26: a RetryService, PollService or spawn_loop whose unit call does not
\* return stays inside that call: it makes no further call, loads the flag
\* no more and returns nothing, also when KEEP_RUNNING is stored false.
C26_NoTimeout ==
    [][stuck =>
          /\ stuck'
          /\ op' = op /\ op \in {"retry", "poll", "loop"}
          /\ pc' = pc /\ pc = "process"
          /\ result' = result
          /\ trace' = trace
          /\ idleReads' = idleReads
          /\ attempt' = attempt]_vars

C26_Witness ==
    /\ op = "retry" /\ stuck
    /\ ~KEEP_RUNNING
    /\ attempt = 1
    /\ stuckTicks = MaxStuckTicks
    /\ result = NoResult

\* C27: in a PollService call every Ok(None) of the unit is followed by a
\* call of the idle function; an idle call that returned Err ends the call
\* with that very Err and the unit is not invoked again; after an idle call
\* that returned Ok the unit is polled again; the call ends otherwise only
\* on the unit's Ok(Some(v)) or Err.
C27_PollIdleErr ==
    op = "poll" =>
        /\ \A k \in DOMAIN trace :
              /\ (trace[k].call = "process" /\ trace[k].out = "NoneYet") =>
                    (k < Len(trace) /\ trace[k + 1].call = "idle")
              /\ (trace[k].call = "process" /\ trace[k].out # "NoneYet") =>
                    (k = Len(trace) /\ pc = "done")
              /\ (trace[k].call = "idle" /\ k < Len(trace)) => trace[k + 1].call = "process"
              /\ trace[k].call = "idle" =>
                    (k > 1 /\ trace[k - 1].call = "process" /\ trace[k - 1].out = "NoneYet")
        /\ (pc = "done" /\ LastCall.call = "idle") =>
              (idleRet.tag = "Err" /\ result = idleRet)
        /\ (pc = "process" /\ trace # <<>>) => (LastCall.call = "idle" /\ idleRet = Ok(0))

C27_Witness ==
    /\ op = "poll" /\ pc = "done"
    /\ idleFn = CustomIdle
    /\ Calls("process") = 2 /\ Calls("idle") = 2
    /\ LastCall = EvIdle(1)
    /\ result = Err(ServiceError([kind |-> "Terminal", payload |-> 0]))

\* C28: within one RetryService or PollService call the k-th call of the
\* idle function gets attempt number k-1, the loop's counter equals the
\* number of idle calls that have returned Ok, and a call that has made no
\* attempt yet has its counter at 0.
C28_IdleNumber(k) == Cardinality({j \in 1..k : trace[j].call = "idle"})

C28_AttemptNumbers ==
    op \in {"retry", "poll"} =>
        /\ \A k \in DOMAIN trace :
              trace[k].call = "idle" => trace[k].arg = C28_IdleNumber(k) - 1
        /\ pc = "process" => attempt = Calls("idle")
        /\ pc = "idle" => (attempt = Calls("idle") - 1 /\ idleAttempts = attempt)
        /\ trace = <<>> => attempt = 0

C28_Witness ==
    /\ op = "retry" /\ pc = "idle"
    /\ attempt = 2
    /\ idleAttempts = 2
    /\ Calls("idle") = 3
    /\ trace[2] = EvIdle(0)

RECURSIVE C30_Sum(_, _)
C30_Sum(s, k) == IF k = 0 THEN 0 ELSE C30_Sum(s, k - 1) + s[k]

C30_MutChainKeepsState ==
    op = "mutchain" =>
        /\ Len(mcOut) = Len(mcIn)
        /\ \A k \in DOMAIN mcOut : mcOut[k] = C30_Sum(mcIn, k)
        /\ appendN = C30_Sum(mcIn, Len(mcIn))

C30_Witness ==
    /\ op = "mutchain"
    /\ mcIn = <<1, 2, 4>>
    /\ mcOut = <<1, 3, 7>>
    /\ appendN = 7

\* C31: ServiceMut, ServiceAsync, DynService, DynMutService, DynAsyncService
\* and ArcService invoke the wrapped unit exactly once per process call, with
\* the caller's input, and return its result unchanged; the future of a
\* ServiceAsync is never pending, and an asynchronous chain of wrapped
\* synchronous links returns what the links' results make the synchronous
\* chain return.
C31_SyncChainResult ==
    LET last == chainIO[Len(chainIO)]
    IN IF last.out = "Ok" THEN Ok(last.val) ELSE Err(ServiceChainError(last.e))

C31_WrappersForward ==
    /\ (op = "wrap" /\ pc = "inner") => trace = <<>>
    /\ (op = "wrap" /\ pc = "done") =>
          /\ Len(trace) = 1
          /\ trace[1].call = "process" /\ trace[1].arg = origInput
          /\ result = (IF trace[1].out = "Ok" THEN Ok(trace[1].val) ELSE Err(trace[1].e))
    /\ (op = "wrap" /\ wrapper = "ServiceAsync") => worker = "loop"
    /\ (op = "chain" /\ variant = "AsyncService" /\ pc = "done") =>
          /\ result = C31_SyncChainResult
          /\ chainValue = (IF chainFailed = <<>> THEN chainIO[Len(chainIO)].val
                           ELSE chainIO[Len(chainIO)].in)

C31_Witness ==
    /\ op = "wrap" /\ pc = "done" /\ wrapper = "ServiceAsync" /\ origInput = 1
    /\ trace = <<EvProcess(1, UnitErr([kind |-> "Retry", payload |-> 1]))>>
    /\ result = Err([kind |-> "Retry", payload |-> 1])

C33_MaybeProcess ==
    /\ (op = "maybe" /\ pc # "done") => trace = <<>>
    /\ (op = "maybe" /\ pc = "done") =>
          IF maybeSome
          THEN /\ Len(trace) = 1
               /\ trace[1].call = "process" /\ trace[1].arg = origInput
               /\ trace[1].out = "Ok" => result = OkSome(trace[1].val)
               /\ trace[1].out = "Err" => result = Err(trace[1].e)
          ELSE /\ trace = <<>>
               /\ result = OkNone

C33_Witness ==
    /\ op = "maybe" /\ pc = "done" /\ ~maybeSome
    /\ trace = <<>> /\ result = OkNone

\* C34: in RetryService.process every failed attempt is followed at once by
\* one idle invocation, so idle invocations and failed attempts are equal in
\* number; parse_retry is called only straight after an idle invocation that
\* returned Ok; and a call that ends on the classifier's Err ends after that
\* idle invocation has completed, its wait included.
C34_IdleCallsUpTo(k) == Cardinality({j \in 1..k : trace[j].call = "idle"})

C35_FlagOnlyInIdle ==
    [][/\ (idleReads' # idleReads /\ idleReads' # <<>>) =>
              /\ idlePc \in {"check", "inner"}
              /\ idleReads' = Append(idleReads, KEEP_RUNNING)
       /\ op = "loop" => idleReads' = idleReads
       /\ (~KEEP_RUNNING /\ op \in {"retry", "poll", "loop"} /\ pc = "process"
               /\ Len(trace') > Len(trace)) =>
              LET ev == trace'[Len(trace) + 1]
              IN /\ ev.call = "process"
                 /\ (op \in {"retry", "poll"} /\ ev.out \in {"Ok", "Some"}) =>
                       pc' = "done" /\ result' = Ok(ev.val)
                 /\ (op = "poll" /\ ev.out = "Err") =>
                       pc' = "done" /\ result' = Err(ServiceError(ev.e))
                 /\ op = "loop" => pc' = (IF ev.out = "Err" THEN "handler" ELSE "process")
      ]_vars

C35_Witness ==
    /\ op = "poll" /\ pc = "done" /\ ~KEEP_RUNNING
    /\ trace = <<EvProcess(0, UnitSome(1))>>
    /\ idlePc = "none" /\ idleReads = <<>>
    /\ result = Ok(1)

\* C36: in a chain of n links (start plus n-1 next) the error of link i
\* reaches the caller inside exactly n-i+1 nested ServiceChainError layers:
\* one from the level that owns the link and one from every level built on
\* top of it; only an error of the last link is wrapped once.
C36_ChainErrorLayers ==
    (op = "chain" /\ chainFailed # <<>>) =>
        /\ pc \in {"prev_err", "done"}
        /\ pc = "prev_err" => chainLayers = chainLink - chainFailed[1]
        /\ pc = "done" =>
              /\ chainLayers = chainLen - chainFailed[1] + 1
              /\ result = Err(ServiceChainError(LinkError(chainFailed[1])))
              /\ chainLayers = 1 <=> chainFailed[1] = chainLen

C36_Witness ==
    /\ op = "chain" /\ pc = "done" /\ chainLen = 3 /\ chainFailed = <<1>>
    /\ chainLayers = 3

\* C37 (as claimed): when the retry loop wraps a WsSession, every attempt of
\* one process call is given an event of the kind the caller passed, a
\* WriteMessage(m) always with the same m.
C37_RetriesSameEvent ==
    op = "ws" =>
        \A k \in DOMAIN trace :
            trace[k].call = "process" =>
                /\ trace[k].arg.kind = wsOrig.kind
                /\ wsOrig.kind = "WriteMessage" => trace[k].arg = wsOrig

\* C38: one process call of RetryToOptionService calls the wrapped unit once,
\* then at most its classifier, and never an idle function; when the unit's
\* error is retryable the call returns Ok(None) and the input the classifier
\* recovered goes nowhere: a full ArrayQueue behind the adapter is left as it
\* was.
C38_NoRetryInputDropped ==
    [][/\ op' = "rto" =>
             /\ idlePc' = "none"
             /\ Calls("idle")' = 0
             /\ Calls("process")' = (IF pc' = "done" THEN 1 ELSE 0)
             /\ Len(trace') <= 2
       /\ (op = "rto" /\ pc = "process" /\ pc' # pc) =>
             LET ev == trace'[1]
                 p == ParseRetryOf(rtoUnit, ev.e)
             IN /\ pc' = "done"
                /\ ev.call = "process" /\ ev.arg = input
                /\ (ev.out = "Err" /\ p.tag = "Ok") =>
                      /\ result' = OkNone
                      /\ trace' = <<ev, EvParse(ev.e)>>
                      /\ q' = q
                /\ (rtoUnit = "ArrayQueuePusher" /\ Len(q) = QueueCap) =>
                      /\ ev.e = [kind |-> "Full", payload |-> input]
                      /\ result' = OkNone
                      /\ q' = q
                /\ (rtoUnit = "ArrayQueuePusher" /\ Len(q) < QueueCap) =>
                      /\ result' = OkSome(0)
                      /\ q' = Append(q, input)
      ]_vars

C38_Witness ==
    /\ op = "rto" /\ pc = "done" /\ rtoUnit = "ArrayQueuePusher"
    /\ q = <<0, 0>> /\ input = 1
    /\ trace = <<EvProcess(1, UnitErr([kind |-> "Full", payload |-> 1])),
                 EvParse([kind |-> "Full", payload |-> 1])>>
    /\ result = OkNone

\* C39: PollService set against the RetryService loop over the same unit
\* with Ok(None) reported as a retryable error whose input is ().
\* C39_RetryRun(k, a) replays RetryService::process from entry k of the poll
\* call's history, attempt a, against the unit results and idle outcomes
\* recorded there: an idle invocation followed by another poll returned Ok,
\* the last one returned idleRet.
C39_AsRetryUnit(ev) ==
    IF ev.out = "Some" THEN UnitOk(ev.val)
    ELSE IF ev.out = "NoneYet" THEN UnitErr([kind |-> "Retry", payload |-> 0])
    ELSE UnitErr(ev.e)

RECURSIVE C39_RetryRun(_, _)
C39_RetryRun(k, a) ==
    IF k > Len(trace)
    THEN [ok |-> TRUE, pc |-> "process", attempt |-> a, result |-> NoResult]
    ELSE LET ev == trace[k]
             r == C39_AsRetryUnit(ev)
             next == RetryOnProcess(r)
         IN IF ev.call # "process"
            THEN [ok |-> FALSE, pc |-> "", attempt |-> a, result |-> NoResult]
            ELSE IF next.pc = "done"
            THEN [ok |-> k = Len(trace), pc |-> "done", attempt |-> a, result |-> next.result]
            ELSE IF k + 1 > Len(trace) \/ trace[k + 1] # EvIdle(a)
            THEN [ok |-> FALSE, pc |-> "idle", attempt |-> a, result |-> NoResult]
            ELSE IF k + 1 = Len(trace) /\ pc = "idle"
            THEN [ok |-> TRUE, pc |-> "idle", attempt |-> a, result |-> NoResult]
            ELSE LET idled == IF k + 1 < Len(trace) THEN Ok(0) ELSE idleRet
                     after == RetryOnIdle(idled, r.e, 0, a)
                 IN IF after.pc = "done"
                    THEN [ok |-> k + 1 = Len(trace), pc |-> "done", attempt |-> after.attempt,
                          result |-> after.result]
                    ELSE C39_RetryRun(k + 2, after.attempt)

\* C39 (as claimed): for every sequence of unit results and idle outcomes the
\* poll call makes the unit and idle invocations the retry loop makes, with
\* the same attempt numbers, and is where the retry loop is, with its result.
C39_PollIsRetry ==
    op = "poll" =>
        LET ref == C39_RetryRun(1, 0)
        IN /\ ref.ok
           /\ ref.pc = pc
           /\ ref.attempt = attempt
           /\ ref.result = result

\* C39 (amended): as long as the polled unit has returned only Ok(Some(v)) or
\* Ok(None), the poll call makes the invocations of the retry loop, with the
\* same attempt numbers and the same result; when the unit returns Err(e),
\* after polls and idle invocations that match the retry loop's, the poll
\* call returns Err(ServiceError(e)) at once, with no idle invocation for
\* that attempt.
C39_PollIsRetryUntilErr ==
    op = "poll" =>
        LET ref == C39_RetryRun(1, 0)
        IN IF \A k \in DOMAIN trace : trace[k].out # "Err"
           THEN /\ ref.ok
                /\ ref.pc = pc
                /\ ref.attempt = attempt
                /\ ref.result = result
           ELSE /\ LastCall.call = "process" /\ LastCall.out = "Err"
                /\ \A k \in 1..(Len(trace) - 1) : trace[k].out # "Err"
                /\ pc = "done"
                /\ result = Err(ServiceError(LastCall.e))
                /\ ~ref.ok /\ ref.pc = "idle" /\ ref.attempt = attempt
                /\ Calls("idle") = attempt
                /\ \A k \in 1..(Len(trace) - 1) :
                      /\ trace[k].call = "process" => trace[k + 1] = EvIdle((k - 1) \div 2)
                      /\ trace[k].call = "idle" => trace[k + 1].call = "process"

C39_Witness ==
    /\ op = "poll" /\ pc = "done" /\ attempt = 1
    /\ trace = <<EvProcess(0, UnitNone), EvIdle(0),
                 EvProcess(0, UnitErr([kind |-> "Terminal", payload |-> 1]))>>
    /\ result = Err(ServiceError([kind |-> "Terminal", payload |-> 1]))

\* C40: KEEP_RUNNING changes only in a store made by external code: every
\* step of an idle strategy, of RetryService, PollService,
\* RetryToOptionService, ServiceChain and of a spawned loop leaves it as it
\* is, so a step that changes the flag changes nothing of the caller's
\* operation.
C40_CoreNeverWritesFlag ==
    [][KEEP_RUNNING' # KEEP_RUNNING =>
          UNCHANGED <<op, variant, pc, idleVars, loopVars, result, chainVars, extVars>>]_vars

C40_Witness ==
    /\ op = "retry" /\ pc = "done" /\ ~KEEP_RUNNING
    /\ idleFn = "backoff" /\ idleReads = <<FALSE>>
    /\ result = Err(Interrupted)

====
